---- MODULE Spec2Model ----
(***************************************************************************)
(* The durable outbox of the RFID reader service: the card_reads table     *)
(* (rfid_reader.py DatabaseManager), the capture loop and the background   *)
(* sync worker (rfid_reader.py RFIDReader), the operator commands          *)
(* (db_manager.py) and the schema migration (migrate_db.py).               *)
(*                                                                         *)
(* Time is counted in minutes.  `now` is the UTC wall clock that SQLite's  *)
(* datetime('now') and CURRENT_TIMESTAMP read; Python's datetime.now() is  *)
(* the host's local time, now + tz.  Datetime strings all have the format  *)
(* 'YYYY-MM-DD HH:MM:SS', so SQLite's text comparison of two of them is    *)
(* the comparison of the instants they denote.                             *)
(***************************************************************************)
EXTENDS Integers, Sequences, FiniteSets, TLC

VARIABLES
    layout,         \* schema of card_reads on disk: "new" (has card_id) or "old"
    rows,           \* the card_reads table: id -> row
    seq,            \* sqlite_sequence entry of card_reads (AUTOINCREMENT high-water mark)
    now,            \* UTC wall clock, minutes
    tz,             \* host time-zone offset, minutes (local = now + tz)
    last_card_id,   \* RFIDReader.last_card_id
    row_id,         \* value returned by the last insert_card_read (0: none yet)
    pc,             \* position of the sync worker: "sleep", "send", "record";
                    \* "down" while the process is not running
    pending_syncs,  \* rest of the batch the running drain pass iterates over
    outcome,        \* (success, response) of the send_webhook call just made
    passSent,       \* ids for which send_webhook was called in the current pass
    failBudget,     \* failing replies the endpoint may still give
    restarts,       \* process restarts so far
    issued,         \* largest id any insert has ever been given in this store
    running,        \* RFIDReader.running
    webhook_url,    \* config['webhook_url'] as loaded by __init__ (None: not set)
    endpoint,       \* the replies the endpoint of this run can give
    cap,            \* number of events the store of this run can take
    wire,           \* the request send_webhook just made and the reply it got
    txn,            \* per thread, the write transaction it has open
    card_reads_new, \* the table card_reads_new of migrate_db.py: [exists, rows, seq]
    indexes,        \* names of the indexes on card_reads
    mig,            \* the running migrate_database: its position and the
                    \* transaction it has open
    disk,           \* "ok", or "failing": the store's location gives I/O errors
    startup,        \* how the last RFIDReader.__init__ ended: "ok" or "raised"
    config,         \* the lines of the config file
    self_device_id, \* RFIDReader.device_id of the running process
    generated,      \* number of ids generate_device_id has made so far
    w2,             \* the sync worker of a second service process on the store
    capture         \* card and result of the last pass of run's capture loop

vars == <<layout, rows, seq, now, tz, last_card_id, row_id, pc, pending_syncs,
          outcome, passSent, failBudget, restarts, issued, running, webhook_url,
          endpoint, cap, wire, txn, card_reads_new, indexes, mig, disk, startup,
          config, self_device_id, generated, w2, capture>>

\* what the operator and the environment set for a run
settings == <<webhook_url, endpoint, cap>>

\* the schema objects beside card_reads, and a migration in progress
schema == <<card_reads_new, indexes, mig>>

\* the identity of the device and the file that holds it
identity == <<config, self_device_id, generated>>

\* the running service and the clock
service == <<now, tz, last_card_id, row_id, pc, pending_syncs, outcome,
             passSent, failBudget, restarts, issued, running, settings, wire, txn>>

\* the surroundings of the service of most runs
env == <<schema, disk, startup, identity, w2, capture>>

----------------------------------------------------------------------------
(* Bounds of the model *)

MaxId == 2
MaxFailures == 2
MaxMinute == 1
MaxRestarts == 1
\* failing replies of a long outage: enough for the backoff to reach its cap
\* and for an event to spend the whole age window failing
MaxOutage == 17
\* events of a capture sequence: enough for a card to come back after another
MaxEvents == 3
\* ids generate_device_id makes at most
MaxIds == 3
\* lines of a config file
MaxLines == 2

(* Program constants *)

DayMinutes == 1440
BackoffCap == 1440
DefaultMaxAgeDays == 7
NULL == -1000000
None == "None"
NullText == "NULL"

DeviceId == "dev-1"
Url == "http://endpoint"
Cards == {"CARD-7", "CARD-9"}
\* the text stored on each card
CardText == [c \in Cards |-> IF c = "CARD-7" THEN "hello" ELSE ""]
TzOffsets == {-60, 0, 60}
MaxAges == {0, 1, 7, 8}
CleanupDays == {0, 1}
\* texts a card can hold at a read, stripped
Texts == {"hello", ""}

Min(a, b) == IF a <= b THEN a ELSE b

SetMax(S) == IF S = {} THEN 0 ELSE CHOOSE x \in S : \A y \in S : y <= x

SetMin(S) == CHOOSE x \in S : \A y \in S : x <= y

----------------------------------------------------------------------------
(* The endpoint's replies *)

Reply200 == [status |-> 200, text |-> "OK"]

FailingReplies == {[status |-> 500, text |-> "error"]}

\* status of a reply that is no HTTP response: requests.post raised a
\* RequestException (timeout, connection error), text is str(e)
NoResponse == 0

\* status of a reply that is an exception of another kind, raised while the
\* event is handled
Unexpected == -1

SuccessReplies == {[status |-> 201, text |-> "Created"]}

TransportErrors == {[status |-> NoResponse, text |-> "timed out"]}

UnexpectedErrors == {[status |-> Unexpected, text |-> "boom"]}

AllReplies ==
    {Reply200} \cup FailingReplies \cup SuccessReplies \cup TransportErrors
        \cup UnexpectedErrors

\* the capture loop of run has not made a pass in this process
NoCapture == [card_id |-> None, result |-> "none"]

\* no send_webhook call is waiting for its result to be recorded
NoOutcome == [success |-> FALSE, response |-> NullText]

\* no request has been made in the attempt at hand
NoWire == [sent |-> FALSE, device_id |-> NullText, card_id |-> NullText,
           card_value |-> NullText, status |-> NoResponse]

\* send_webhook classifying the reply to a request that uses the configured url
SendWebhook_Any2xx(url, reply) ==
    IF url = None
    THEN [success |-> FALSE, response |-> "No webhook URL configured"]
    ELSE IF reply.status = NoResponse
    THEN [success |-> FALSE, response |-> reply.text]
    ELSE IF reply.status >= 200 /\ reply.status < 300
    THEN [success |-> TRUE, response |-> reply.text]
    ELSE [success |-> FALSE,
          response |-> "HTTP " \o ToString(reply.status) \o ": " \o reply.text]

\* send_webhook: no url, a RequestException, status 200, any other status
SendWebhook(url, reply) ==
    IF url = None
    THEN [success |-> FALSE, response |-> "No webhook URL configured"]
    ELSE IF reply.status = NoResponse
    THEN [success |-> FALSE, response |-> reply.text]
    ELSE IF reply.status = 200
    THEN [success |-> TRUE, response |-> reply.text]
    ELSE [success |-> FALSE,
          response |-> "HTTP " \o ToString(reply.status) \o ": " \o reply.text]

\* the try block of sync_pending_data around one event: the result of
\* send_webhook, or (False, str(e)) when an exception reaches the handler
Attempt(url, reply) ==
    IF url # None /\ reply.status = Unexpected
    THEN [success |-> FALSE, response |-> reply.text]
    ELSE SendWebhook(url, reply)

\* the body send_webhook posts for the tuple t, and the status it got back
Wire(t, reply) ==
    [sent |-> TRUE, device_id |-> self_device_id, card_id |-> t.card_id,
     card_value |-> t.card_value, status |-> reply.status]

\* no write transaction open
NoTxn == [open |-> FALSE, rows |-> <<>>, seq |-> 0, id |-> 0]

Threads == {"capture", "worker"}

\* no second process
NoWorker == [pc |-> "off", pending_syncs |-> <<>>, outcome |-> NoOutcome]

----------------------------------------------------------------------------
(* DatabaseManager *)

\* an insert that schedules the first attempt a minute later
NewRow_RetryLater(device_id, card_id, card_value) ==
    [device_id |-> device_id, card_id |-> card_id, card_value |-> card_value,
     timestamp |-> now, sync_status |-> "pending", sync_attempts |-> 0,
     last_sync_attempt |-> NULL, next_retry |-> now + 1,
     webhook_response |-> NullText, created_at |-> now]

\* an insert that stamps the row with the time of an attempt
NewRow_Stamped(device_id, card_id, card_value) ==
    [device_id |-> device_id, card_id |-> card_id, card_value |-> card_value,
     timestamp |-> now, sync_status |-> "pending", sync_attempts |-> 0,
     last_sync_attempt |-> now, next_retry |-> now,
     webhook_response |-> NullText, created_at |-> now]

\* the row INSERT creates: the column defaults of the CREATE TABLE statement
NewRow(device_id, card_id, card_value) ==
    [device_id |-> device_id, card_id |-> card_id, card_value |-> card_value,
     timestamp |-> now, sync_status |-> "pending", sync_attempts |-> 0,
     last_sync_attempt |-> NULL, next_retry |-> now,
     webhook_response |-> NullText, created_at |-> now]

\* the WHERE clause without its test of sync_status
IsDue_AnyStatus(r, max_age_days) ==
    /\ (r.next_retry = NULL \/ r.next_retry <= now)
    /\ r.created_at >= now - max_age_days * DayMinutes

\* the WHERE clause without its test of created_at
IsDue_AnyAge(r, max_age_days) ==
    /\ r.sync_status = "pending"
    /\ (r.next_retry = NULL \/ r.next_retry <= now)

\* a WHERE clause with the comparison alone, which is not true of a NULL
IsDue_NullNotDue(r, max_age_days) ==
    /\ r.sync_status = "pending"
    /\ (r.next_retry # NULL /\ r.next_retry <= now)
    /\ r.created_at >= now - max_age_days * DayMinutes

\* WHERE clause of get_pending_syncs
IsDue(r, max_age_days) ==
    /\ r.sync_status = "pending"
    /\ (r.next_retry = NULL \/ r.next_retry <= now)
    /\ r.created_at >= now - max_age_days * DayMinutes

DueIds(max_age_days) == {i \in DOMAIN rows : IsDue(rows[i], max_age_days)}

\* the tuple get_pending_syncs selects for row i
Tuple(i) ==
    [row_id |-> i, device_id |-> rows[i].device_id, card_id |-> rows[i].card_id,
     card_value |-> rows[i].card_value, timestamp |-> rows[i].timestamp,
     attempts |-> rows[i].sync_attempts, last_attempt |-> rows[i].last_sync_attempt]

\* ORDER BY created_at ASC: rows of equal created_at come in an order SQL
\* leaves to the engine, so every order that sorts by created_at is possible
Orderings(S) ==
    {s \in [1..Cardinality(S) -> S] :
        /\ \A i, j \in 1..Cardinality(S) : i # j => s[i] # s[j]
        /\ \A i, j \in 1..Cardinality(S) :
              i < j => rows[s[i]].created_at <= rows[s[j]].created_at}

\* a query that returns the rows of every status
GetPendingSyncs_AnyStatus(max_age_days) ==
    LET all == {i \in DOMAIN rows : IsDue_AnyStatus(rows[i], max_age_days)}
    IN  {[k \in 1..Cardinality(all) |-> Tuple(s[k])] : s \in Orderings(all)}

\* the lists get_pending_syncs can return; on the old layout the SELECT of
\* card_id raises, as every SELECT does while the location gives I/O errors,
\* and the except branch returns []
GetPendingSyncs(max_age_days) ==
    IF layout # "new" \/ disk = "failing"
    THEN {<<>>}
    ELSE {[k \in 1..Cardinality(DueIds(max_age_days)) |-> Tuple(s[k])] :
             s \in Orderings(DueIds(max_age_days))}

\* a backoff that starts at two minutes
Backoff_OffByOne(attempts) == Min(2 ^ attempts, BackoffCap)

\* backoff_minutes = min(2 ** (attempts - 1), 1440)
Backoff(attempts) == Min(2 ^ (attempts - 1), BackoffCap)

\* an update whose success path also starts the retry schedule again
UpdateSyncStatus_ResetsRetry(id, status, response, attempts) ==
    IF id \notin DOMAIN rows
    THEN rows
    ELSE IF status = "success"
    THEN [rows EXCEPT ![id].sync_status = status,
                      ![id].webhook_response = response,
                      ![id].last_sync_attempt = now,
                      ![id].sync_attempts = 0,
                      ![id].next_retry = NULL]
    ELSE LET n == IF attempts = NULL THEN rows[id].sync_attempts + 1 ELSE attempts
         IN  [rows EXCEPT ![id].sync_status = status,
                          ![id].sync_attempts = n,
                          ![id].last_sync_attempt = now,
                          ![id].next_retry = (now + tz) + Backoff(n),
                          ![id].webhook_response = response]

\* update_sync_status: the table after the UPDATE ... WHERE id = ?
UpdateSyncStatus(id, status, response, attempts) ==
    IF id \notin DOMAIN rows
    THEN rows
    ELSE IF status = "success"
    THEN [rows EXCEPT ![id].sync_status = status,
                      ![id].webhook_response = response,
                      ![id].last_sync_attempt = now]
    ELSE LET n == IF attempts = NULL THEN rows[id].sync_attempts + 1 ELSE attempts
         IN  [rows EXCEPT ![id].sync_status = status,
                          ![id].sync_attempts = n,
                          ![id].last_sync_attempt = now,
                          ![id].next_retry = (now + tz) + Backoff(n),
                          ![id].webhook_response = response]

----------------------------------------------------------------------------
(* The config file and the identity of the device *)

\* a line of the config file: `key = "value"`, a comment (key "#", the text
\* in value) or a table header (key "[", the table's name in value)
Line(key, value) == [key |-> key, value |-> value]

IdLine(id) == Line("device_id", id)

UrlLine(url) == Line("webhook_url", url)

\* texts of comments and values; the first two contain the text 'device_id'
TextsWithDeviceId == {"device_id is set at first start", "http://endpoint/device_id"}

ConfigLines ==
    {IdLine(""), UrlLine("http://endpoint"), UrlLine("http://endpoint/device_id"),
     Line("#", "device_id is set at first start"), Line("#", "reader"),
     Line("[", "database")}

\* 'device_id' in line
Contains(line) == line.key = "device_id" \/ line.value \in TextsWithDeviceId

\* line.strip().startswith('device_id')
StartsWith(line) == line.key = "device_id"

\* the lines of file that stand before its first table header
TopLevel(file) ==
    {k \in 1..Len(file) : \A j \in 1..k : file[j].key # "["}

\* tomllib keeps one value per key: a file that sets a key twice in one table
\* does not load, and load_config ends the process
Loads(file) ==
    \A j, k \in 1..Len(file) :
        (j # k /\ file[j].key = file[k].key /\ file[j].key # "#")
            => (j \in TopLevel(file)) # (k \in TopLevel(file))

\* self.config.get('device_id'): the top-level key, "" when there is none
ConfigDeviceId(file) ==
    IF \E k \in TopLevel(file) : file[k].key = "device_id"
    THEN file[CHOOSE k \in TopLevel(file) : file[k].key = "device_id"].value
    ELSE ""

\* self.config.get('webhook_url')
ConfigWebhookUrl(file) ==
    IF \E k \in TopLevel(file) : file[k].key = "webhook_url"
    THEN file[CHOOSE k \in TopLevel(file) : file[k].key = "webhook_url"].value
    ELSE None

\* the config files an installation can have
ConfigFiles ==
    {file \in UNION {[1..n -> ConfigLines] : n \in 0..MaxLines} : Loads(file)}

\* generate_device_id: a digest of serial number, MAC address and the second
\* of the call, which differs from one start of the process to the next
GenerateDeviceId(n) == "rfid-" \o ToString(n)

\* update_config_device_id: the file's text after the call
UpdateConfigDeviceId(file, device_id) ==
    IF \E k \in 1..Len(file) : Contains(file[k])
    THEN IF \E k \in 1..Len(file) : StartsWith(file[k])
         THEN LET first == SetMin({k \in 1..Len(file) : StartsWith(file[k])})
              IN  [file EXCEPT ![first] = IdLine(device_id)]
         ELSE file
    ELSE Append(file, IdLine(device_id))

----------------------------------------------------------------------------
(* The schema: what a connection to the store finds and what statements do *)

IndexNames == {"idx_sync_status", "idx_next_retry"}

\* no table card_reads_new
NoTable == [exists |-> FALSE, rows |-> <<>>, seq |-> 0]

\* the store as a connection sees it
Db ==
    [layout |-> layout, rows |-> rows, seq |-> seq, indexes |-> indexes,
     card_reads_new |-> card_reads_new]

\* the store becomes what a connection has committed
Store(db) ==
    /\ layout' = db.layout
    /\ rows' = db.rows
    /\ seq' = db.seq
    /\ indexes' = db.indexes
    /\ card_reads_new' = db.card_reads_new

\* no migration runs
NoMig == [pc |-> "idle", open |-> FALSE, db |-> [layout |-> "none",
          rows |-> <<>>, seq |-> 0, indexes |-> {}, card_reads_new |-> NoTable]]

\* an initialisation that makes the table anew
InitDatabase_Recreate(db) ==
    [db EXCEPT !.layout = "new", !.rows = <<>>, !.indexes = IndexNames]

\* init_database: CREATE TABLE IF NOT EXISTS card_reads and CREATE INDEX IF
\* NOT EXISTS for both indexes
InitDatabase(db) ==
    [db EXCEPT !.layout = IF db.layout = "none" THEN "new" ELSE db.layout,
               !.indexes = IndexNames]

----------------------------------------------------------------------------
(* The stores a run can start from *)

\* a row of the legacy layout: the columns migrate_database selects
LegacyRow(status) ==
    [device_id |-> "dev-0", card_value |-> "ABC123", timestamp |-> 0,
     sync_status |-> status, sync_attempts |-> 0,
     last_sync_attempt |-> IF status = "success" THEN 0 ELSE NULL,
     next_retry |-> NULL,
     webhook_response |-> IF status = "success" THEN "OK" ELSE NullText,
     created_at |-> 0]

LegacyStores == {[i \in {1} |-> LegacyRow(st)] : st \in {"pending", "success"}}

EmptyStore == [i \in {} |-> 0]

\* the table init_database creates
FreshStore ==
    /\ layout = "new" /\ rows = EmptyStore
    /\ indexes = IndexNames /\ card_reads_new = NoTable

\* a table an earlier version of the service left behind
LegacyStore ==
    /\ layout = "old" /\ rows \in LegacyStores
    /\ indexes = {"idx_sync_status"} /\ card_reads_new = NoTable

\* legacy rows with every column set, and tables of them, with the gaps in
\* the ids that deleted rows leave
LegacyRows ==
    {LegacyRow("pending"), LegacyRow("success"),
     [device_id |-> "dev-1", card_value |-> "XYZ789", timestamp |-> 1,
      sync_status |-> "pending", sync_attempts |-> 3, last_sync_attempt |-> 5,
      next_retry |-> 9, webhook_response |-> "HTTP 500: error", created_at |-> 1]}

LegacyTable ==
    /\ layout = "old"
    /\ \E ids \in SUBSET (1..MaxId) : rows \in [ids -> LegacyRows]
    /\ indexes = {"idx_sync_status"} /\ card_reads_new = NoTable

\* a database file without a card_reads table
NoStore ==
    /\ layout = "none" /\ rows = EmptyStore
    /\ indexes = {} /\ card_reads_new = NoTable

\* a file that is not a database
UnreadableStore ==
    /\ layout = "unknown" /\ rows = EmptyStore
    /\ indexes = {} /\ card_reads_new = NoTable

\* the service is installed with the config file given and not started
HaltedWith(file) ==
    /\ seq = SetMax(DOMAIN rows)
    /\ issued = seq
    /\ now = 0
    /\ last_card_id = None
    /\ row_id = 0
    /\ pc = "down"
    /\ pending_syncs = <<>>
    /\ outcome = NoOutcome
    /\ passSent = <<>>
    /\ failBudget = 0
    /\ restarts = 0
    /\ running = FALSE
    /\ webhook_url = ConfigWebhookUrl(file)
    /\ endpoint = {Reply200}
    /\ cap = MaxId + 1
    /\ wire = NoWire
    /\ txn = [t \in Threads |-> NoTxn]
    /\ mig = NoMig
    /\ disk = "ok"
    /\ startup = "none"
    /\ config = file
    /\ self_device_id = NullText
    /\ generated = 0
    /\ w2 = NoWorker
    /\ capture = NoCapture

Halted == HaltedWith(<<IdLine(DeviceId), UrlLine(Url)>>)

\* RFIDReader.__init__ and the start of run, on the store as it is, with the
\* url the config file has, an endpoint that can give the replies given, and
\* room for capacity events
BootWith(budget, url, replies, capacity) ==
    /\ seq = SetMax(DOMAIN rows)
    /\ issued = seq
    /\ now = 0
    /\ last_card_id = None
    /\ row_id = 0
    /\ pc = "sleep"
    /\ pending_syncs = <<>>
    /\ outcome = NoOutcome
    /\ passSent = <<>>
    /\ failBudget = budget
    /\ restarts = 0
    /\ running = TRUE
    /\ webhook_url = url
    /\ endpoint = replies
    /\ cap = capacity
    /\ wire = NoWire
    /\ txn = [t \in Threads |-> NoTxn]
    /\ mig = NoMig
    /\ disk = "ok"
    /\ startup = "ok"
    /\ config = IF url = None THEN <<IdLine(DeviceId)>>
                ELSE <<IdLine(DeviceId), UrlLine(url)>>
    /\ self_device_id = DeviceId
    /\ generated = 0
    /\ w2 = NoWorker
    /\ capture = NoCapture

\* the same with a url configured and an endpoint that answers 200 or 500
Boot(budget) ==
    BootWith(budget, Url, {Reply200} \cup FailingReplies, MaxId)

Init == FreshStore /\ tz \in TzOffsets /\ Boot(MaxFailures)

----------------------------------------------------------------------------
(* Capture path: one iteration of the loop of RFIDReader.run *)

\* the INSERT of insert_card_read fails: the table has no card_id column, or
\* the store's location gives an I/O error
InsertRaises == layout # "new" \/ disk = "failing"

\* a capture path that takes a changed text for a new presentation
ReadCard_DedupOnText(card_id, card_value) ==
    /\ pc # "down"
    /\ running
    /\ seq < cap
    /\ last_card_id' = card_id
    /\ IF ~InsertRaises /\ (card_id # last_card_id
                              \/ (seq \in DOMAIN rows /\ rows[seq].card_value # card_value))
       THEN /\ rows' = (seq + 1) :> NewRow(self_device_id, card_id, card_value) @@ rows
            /\ seq' = seq + 1
            /\ row_id' = seq + 1
            /\ issued' = IF seq + 1 > issued THEN seq + 1 ELSE issued
       ELSE UNCHANGED <<rows, seq, row_id, issued>>
    /\ UNCHANGED <<layout, now, tz, pc, pending_syncs, outcome, passSent,
                   failBudget, restarts>>
    /\ UNCHANGED <<running, settings, wire, txn>>
    /\ UNCHANGED env

\* a capture loop without the try around insert_card_read: what the insert
\* raises ends the loop, and the finally block clears running
ReadCard_StopOnFailure(card_id, card_value) ==
    /\ pc # "down"
    /\ running
    /\ seq < cap
    /\ last_card_id' = card_id
    /\ IF card_id # last_card_id /\ ~InsertRaises
       THEN /\ rows' = (seq + 1) :> NewRow(self_device_id, card_id, card_value) @@ rows
            /\ seq' = seq + 1
            /\ row_id' = seq + 1
            /\ issued' = IF seq + 1 > issued THEN seq + 1 ELSE issued
       ELSE UNCHANGED <<rows, seq, row_id, issued>>
    /\ running' = (card_id = last_card_id \/ ~InsertRaises)
    /\ UNCHANGED <<layout, now, tz, pc, pending_syncs, outcome, passSent,
                   failBudget, restarts>>
    /\ UNCHANGED <<settings, wire, txn>>
    /\ UNCHANGED env

\* read_card returns the card unless it repeats the previous one; run then
\* calls insert_card_read, which raises when the INSERT fails, and logs what
\* it raises
ReadCard(card_id, card_value) ==
    /\ pc # "down"
    /\ running
    /\ seq < cap
    /\ last_card_id' = card_id
    /\ IF card_id # last_card_id /\ ~InsertRaises
       THEN /\ rows' = (seq + 1) :> NewRow(self_device_id, card_id, card_value) @@ rows
            /\ seq' = seq + 1
            /\ row_id' = seq + 1
            /\ issued' = IF seq + 1 > issued THEN seq + 1 ELSE issued
       ELSE UNCHANGED <<rows, seq, row_id, issued>>
    /\ UNCHANGED <<layout, now, tz, pc, pending_syncs, outcome, passSent,
                   failBudget, restarts>>
    /\ UNCHANGED <<running, settings, wire, txn>>
    /\ UNCHANGED env

\* a capture loop whose de-duplication state is set once the insert has
\* succeeded
RunLoop_DedupAfterInsert(card_id, card_value) ==
    /\ pc # "down"
    /\ running
    /\ seq < cap
    /\ IF card_id = last_card_id
       THEN /\ capture' = [card_id |-> card_id, result |-> "repeat"]
            /\ UNCHANGED <<rows, seq, row_id, issued, last_card_id>>
       ELSE IF InsertRaises
       THEN /\ capture' = [card_id |-> card_id, result |-> "failed"]
            /\ UNCHANGED <<rows, seq, row_id, issued, last_card_id>>
       ELSE /\ capture' = [card_id |-> card_id, result |-> "stored"]
            /\ last_card_id' = card_id
            /\ rows' = (seq + 1) :> NewRow(self_device_id, card_id, card_value) @@ rows
            /\ seq' = seq + 1
            /\ row_id' = seq + 1
            /\ issued' = IF seq + 1 > issued THEN seq + 1 ELSE issued
    /\ UNCHANGED <<layout, now, tz, pc, pending_syncs, outcome, passSent,
                   failBudget, restarts>>
    /\ UNCHANGED <<running, settings, wire, txn>>
    /\ UNCHANGED <<schema, disk, startup, identity, w2>>

\* one pass of the loop of run with a card on the sensor, and what the pass
\* came to: read_card returns None for the card it saw last ("repeat");
\* otherwise it sets last_card_id and returns the card, and insert_card_read
\* adds the row ("stored") or raises, which run logs ("failed")
RunLoop(card_id, card_value) ==
    /\ pc # "down"
    /\ running
    /\ seq < cap
    /\ last_card_id' = card_id
    /\ IF card_id = last_card_id
       THEN /\ capture' = [card_id |-> card_id, result |-> "repeat"]
            /\ UNCHANGED <<rows, seq, row_id, issued>>
       ELSE IF InsertRaises
       THEN /\ capture' = [card_id |-> card_id, result |-> "failed"]
            /\ UNCHANGED <<rows, seq, row_id, issued>>
       ELSE /\ capture' = [card_id |-> card_id, result |-> "stored"]
            /\ rows' = (seq + 1) :> NewRow(self_device_id, card_id, card_value) @@ rows
            /\ seq' = seq + 1
            /\ row_id' = seq + 1
            /\ issued' = IF seq + 1 > issued THEN seq + 1 ELSE issued
    /\ UNCHANGED <<layout, now, tz, pc, pending_syncs, outcome, passSent,
                   failBudget, restarts>>
    /\ UNCHANGED <<running, settings, wire, txn>>
    /\ UNCHANGED <<schema, disk, startup, identity, w2>>

\* a pass of the loop in which reader.read() raises: read_card logs the error
\* and returns None from its except branch, and run goes on to the next pass
ReadError ==
    /\ pc # "down"
    /\ running
    /\ capture' = [card_id |-> None, result |-> "error"]
    /\ UNCHANGED <<layout, rows, seq, service>>
    /\ UNCHANGED <<schema, disk, startup, identity, w2>>

----------------------------------------------------------------------------
(* Sync worker: sync_worker and sync_pending_data *)

\* start of a drain pass: get_pending_syncs(), which returns the empty list
\* when the SELECT raises; an empty list ends the pass
Fetch ==
    /\ pc \in {"sleep", "sleep60"}
    /\ running
    /\ \E batch \in GetPendingSyncs(DefaultMaxAgeDays) :
          /\ pending_syncs' = batch
          /\ pc' = IF batch = <<>> THEN "sleep" ELSE "send"
    /\ passSent' = <<>>
    /\ UNCHANGED <<layout, rows, seq, now, tz, last_card_id, row_id, outcome,
                   failBudget, restarts, issued>>
    /\ UNCHANGED <<running, settings, wire, txn>>
    /\ UNCHANGED env

\* send_webhook for the next tuple of the batch
Send ==
    /\ pc = "send"
    /\ IF webhook_url = None
       THEN /\ outcome' = SendWebhook(webhook_url, Reply200)
            /\ wire' = NoWire
            /\ UNCHANGED failBudget
       ELSE \E reply \in endpoint :
               /\ reply # Reply200 => failBudget > 0
               /\ failBudget' = IF reply # Reply200 THEN failBudget - 1
                                                   ELSE failBudget
               /\ outcome' = Attempt(webhook_url, reply)
               /\ wire' = Wire(Head(pending_syncs), reply)
    /\ passSent' = Append(passSent, Head(pending_syncs).row_id)
    /\ pc' = "record"
    /\ UNCHANGED <<layout, rows, seq, now, tz, last_card_id, row_id,
                   pending_syncs, restarts, issued>>
    /\ UNCHANGED <<running, settings, txn>>
    /\ UNCHANGED env

\* a loop that gives up the batch at the first failure
Record_AbortOnFailure ==
    /\ pc = "record"
    /\ LET t == Head(pending_syncs)
       IN  rows' = IF outcome.success
                   THEN UpdateSyncStatus(t.row_id, "success", outcome.response, NULL)
                   ELSE UpdateSyncStatus(t.row_id, "pending", outcome.response,
                                         t.attempts + 1)
    /\ pending_syncs' = IF outcome.success THEN Tail(pending_syncs) ELSE <<>>
    /\ pc' = IF pending_syncs' = <<>> THEN "sleep" ELSE "send"
    /\ outcome' = NoOutcome
    /\ wire' = NoWire
    /\ passSent' = IF pending_syncs' = <<>> THEN <<>> ELSE passSent
    /\ UNCHANGED <<layout, seq, now, tz, last_card_id, row_id,
                   failBudget, restarts, issued>>
    /\ UNCHANGED <<running, settings, txn>>
    /\ UNCHANGED env

\* a loop that sends the whole batch and records only the last outcome
Record_Deferred ==
    /\ pc = "record"
    /\ LET t == Head(pending_syncs)
       IN  rows' = IF Tail(pending_syncs) # <<>> THEN rows
                   ELSE IF outcome.success
                   THEN UpdateSyncStatus(t.row_id, "success", outcome.response, NULL)
                   ELSE UpdateSyncStatus(t.row_id, "pending", outcome.response,
                                         t.attempts + 1)
    /\ pending_syncs' = Tail(pending_syncs)
    /\ pc' = IF Tail(pending_syncs) = <<>> THEN "sleep" ELSE "send"
    /\ outcome' = NoOutcome
    /\ wire' = NoWire
    /\ passSent' = IF Tail(pending_syncs) = <<>> THEN <<>> ELSE passSent
    /\ UNCHANGED <<layout, seq, now, tz, last_card_id, row_id,
                   failBudget, restarts, issued>>
    /\ UNCHANGED <<running, settings, txn>>
    /\ UNCHANGED env

\* an update_sync_status that raises what the UPDATE raises: the except
\* branch of the loop body calls it again, and what that call raises ends the
\* pass
Record_WriteFailureEndsPass ==
    /\ pc = "record"
    /\ LET t == Head(pending_syncs)
       IN  rows' = IF disk = "failing" THEN rows
                   ELSE IF outcome.success
                   THEN UpdateSyncStatus(t.row_id, "success", outcome.response, NULL)
                   ELSE UpdateSyncStatus(t.row_id, "pending", outcome.response,
                                         t.attempts + 1)
    /\ pending_syncs' = IF disk = "failing" THEN <<>> ELSE Tail(pending_syncs)
    /\ pc' = IF pending_syncs' = <<>> THEN "sleep" ELSE "send"
    /\ outcome' = NoOutcome
    /\ wire' = NoWire
    /\ passSent' = IF pending_syncs' = <<>> THEN <<>> ELSE passSent
    /\ UNCHANGED <<layout, seq, now, tz, last_card_id, row_id,
                   failBudget, restarts, issued>>
    /\ UNCHANGED <<running, settings, txn>>
    /\ UNCHANGED env

\* a loop that queries the store again after every outcome it records
Record_Requery ==
    /\ pc = "record"
    /\ LET t == Head(pending_syncs)
       IN  rows' = IF disk = "failing" THEN rows
                   ELSE IF outcome.success
                   THEN UpdateSyncStatus(t.row_id, "success", outcome.response, NULL)
                   ELSE UpdateSyncStatus(t.row_id, "pending", outcome.response,
                                         t.attempts + 1)
    /\ outcome' = NoOutcome
    /\ wire' = NoWire
    /\ UNCHANGED <<layout, seq, now, tz, last_card_id, row_id,
                   failBudget, restarts, issued>>
    /\ UNCHANGED <<running, settings, txn>>
    /\ UNCHANGED env
    /\ pending_syncs' \in GetPendingSyncs(DefaultMaxAgeDays)'
    /\ pc' = IF pending_syncs' = <<>> THEN "sleep" ELSE "send"
    /\ passSent' = IF pending_syncs' = <<>> THEN <<>> ELSE passSent

\* update_sync_status with the outcome, which logs and swallows what the
\* UPDATE raises; then the loop moves to the next tuple
Record ==
    /\ pc = "record"
    /\ LET t == Head(pending_syncs)
       IN  rows' = IF disk = "failing" THEN rows
                   ELSE IF outcome.success
                   THEN UpdateSyncStatus(t.row_id, "success", outcome.response, NULL)
                   ELSE UpdateSyncStatus(t.row_id, "pending", outcome.response,
                                         t.attempts + 1)
    /\ pending_syncs' = Tail(pending_syncs)
    /\ pc' = IF Tail(pending_syncs) = <<>> THEN "sleep" ELSE "send"
    /\ outcome' = NoOutcome
    /\ wire' = NoWire
    /\ passSent' = IF Tail(pending_syncs) = <<>> THEN <<>> ELSE passSent
    /\ UNCHANGED <<layout, seq, now, tz, last_card_id, row_id,
                   failBudget, restarts, issued>>
    /\ UNCHANGED <<running, settings, txn>>
    /\ UNCHANGED env

\* A second service process on the same store: its run starts a sync worker
\* of its own, which runs the same sync_worker and sync_pending_data
Start2 ==
    /\ w2.pc = "off"
    /\ disk = "ok" /\ layout = "new"
    /\ w2' = [NoWorker EXCEPT !.pc = "sleep"]
    /\ UNCHANGED <<layout, rows, seq, service, schema, disk, startup, identity, capture>>

Fetch2 ==
    /\ w2.pc = "sleep"
    /\ \E batch \in GetPendingSyncs(DefaultMaxAgeDays) :
          w2' = [pc |-> IF batch = <<>> THEN "sleep" ELSE "send",
                 pending_syncs |-> batch, outcome |-> NoOutcome]
    /\ UNCHANGED <<layout, rows, seq, service, schema, disk, startup, identity, capture>>

Send2 ==
    /\ w2.pc = "send"
    /\ \E reply \in endpoint :
          /\ reply # Reply200 => failBudget > 0
          /\ failBudget' = IF reply # Reply200 THEN failBudget - 1 ELSE failBudget
          /\ w2' = [w2 EXCEPT !.pc = "record",
                              !.outcome = Attempt(webhook_url, reply)]
    /\ UNCHANGED <<layout, rows, seq, now, tz, last_card_id, row_id, pc,
                   pending_syncs, outcome, passSent, restarts, issued, running,
                   settings, wire, txn>>
    /\ UNCHANGED <<schema, disk, startup, identity, capture>>

Record2 ==
    /\ w2.pc = "record"
    /\ LET t == Head(w2.pending_syncs)
       IN  rows' = IF disk = "failing" THEN rows
                   ELSE IF w2.outcome.success
                   THEN UpdateSyncStatus(t.row_id, "success", w2.outcome.response, NULL)
                   ELSE UpdateSyncStatus(t.row_id, "pending", w2.outcome.response,
                                         t.attempts + 1)
    /\ w2' = [pc |-> IF Tail(w2.pending_syncs) = <<>> THEN "sleep" ELSE "send",
              pending_syncs |-> Tail(w2.pending_syncs), outcome |-> NoOutcome]
    /\ UNCHANGED <<layout, seq, service, schema, disk, startup, identity, capture>>

\* a worker without the try around its loop body: the exception ends the thread
Raise_EndsThread ==
    /\ pc \in {"send", "record"}
    /\ running
    /\ pc' = "done"
    /\ pending_syncs' = <<>>
    /\ outcome' = NoOutcome
    /\ wire' = NoWire
    /\ passSent' = <<>>
    /\ UNCHANGED <<layout, rows, seq, now, tz, last_card_id, row_id,
                   failBudget, restarts, issued>>
    /\ UNCHANGED <<running, settings, txn>>
    /\ UNCHANGED env

\* an exception leaves sync_pending_data in the middle of a pass: the except
\* clause of sync_worker logs it and sleeps 60 seconds; the batch is gone
Raise ==
    /\ pc \in {"send", "record"}
    /\ running
    /\ pc' = "sleep60"
    /\ pending_syncs' = <<>>
    /\ outcome' = NoOutcome
    /\ wire' = NoWire
    /\ passSent' = <<>>
    /\ UNCHANGED <<layout, rows, seq, now, tz, last_card_id, row_id,
                   failBudget, restarts, issued>>
    /\ UNCHANGED <<running, settings, txn>>
    /\ UNCHANGED env

----------------------------------------------------------------------------
(* The two threads on the store, statement by statement.  Each store method
   opens its own connection; the INSERT or UPDATE it executes begins a
   transaction, which takes the database's write lock and works on its own
   copy of the pages it changes; conn.commit() makes the copy the database.
   A SELECT reads the database as committed. *)

\* a store without a write lock
LockFree_NoLock(t) == TRUE

\* SQLite lets one connection at a time hold the write lock; the statement
\* of another waits for it
LockFree(t) == \A u \in Threads \ {t} : ~txn[u].open

\* capture thread: read_card, then insert_card_read up to its INSERT
InsertBegin(card_id, card_value) ==
    /\ pc # "down"
    /\ running
    /\ seq < cap
    /\ ~txn["capture"].open
    /\ card_id # last_card_id
    /\ layout = "new"
    /\ LockFree("capture")
    /\ last_card_id' = card_id
    /\ txn' = [txn EXCEPT !["capture"] =
                  [open |-> TRUE,
                   rows |-> (seq + 1) :> NewRow(self_device_id, card_id, card_value) @@ rows,
                   seq |-> seq + 1, id |-> seq + 1]]
    /\ UNCHANGED <<layout, rows, seq, now, tz, row_id, pc, pending_syncs,
                   outcome, passSent, failBudget, restarts, issued>>
    /\ UNCHANGED <<running, settings, wire>>
    /\ UNCHANGED env

\* capture thread: conn.commit() and the return of cursor.lastrowid
InsertCommit ==
    /\ txn["capture"].open
    /\ rows' = txn["capture"].rows
    /\ seq' = txn["capture"].seq
    /\ row_id' = txn["capture"].id
    /\ issued' = IF txn["capture"].id > issued THEN txn["capture"].id ELSE issued
    /\ txn' = [txn EXCEPT !["capture"] = NoTxn]
    /\ UNCHANGED <<layout, now, tz, last_card_id, pc, pending_syncs,
                   outcome, passSent, failBudget, restarts>>
    /\ UNCHANGED <<running, settings, wire>>
    /\ UNCHANGED env

\* worker: update_sync_status up to its UPDATE
UpdateBegin ==
    /\ pc = "record"
    /\ LockFree("worker")
    /\ LET t == Head(pending_syncs)
       IN  txn' = [txn EXCEPT !["worker"] =
                     [open |-> TRUE,
                      rows |-> IF outcome.success
                               THEN UpdateSyncStatus(t.row_id, "success",
                                                     outcome.response, NULL)
                               ELSE UpdateSyncStatus(t.row_id, "pending",
                                                     outcome.response, t.attempts + 1),
                      seq |-> seq, id |-> t.row_id]]
    /\ pc' = "commit"
    /\ UNCHANGED <<layout, rows, seq, now, tz, last_card_id, row_id,
                   pending_syncs, outcome, passSent, failBudget, restarts, issued>>
    /\ UNCHANGED <<running, settings, wire>>
    /\ UNCHANGED env

\* worker: conn.commit(), then the loop moves to the next tuple
UpdateCommit ==
    /\ pc = "commit"
    /\ rows' = txn["worker"].rows
    /\ txn' = [txn EXCEPT !["worker"] = NoTxn]
    /\ pending_syncs' = Tail(pending_syncs)
    /\ pc' = IF Tail(pending_syncs) = <<>> THEN "sleep" ELSE "send"
    /\ outcome' = NoOutcome
    /\ wire' = NoWire
    /\ passSent' = IF Tail(pending_syncs) = <<>> THEN <<>> ELSE passSent
    /\ UNCHANGED <<layout, seq, now, tz, last_card_id, row_id,
                   failBudget, restarts, issued>>
    /\ UNCHANGED <<running, settings>>
    /\ UNCHANGED env

----------------------------------------------------------------------------
(* The process is stopped at any point and started again *)

\* the process dies: what it held in memory is gone, the store stays
Stop ==
    /\ pc # "down"
    /\ restarts < MaxRestarts
    /\ restarts' = restarts + 1
    /\ pc' = "down"
    /\ last_card_id' = None
    /\ pending_syncs' = <<>>
    /\ outcome' = NoOutcome
    /\ passSent' = <<>>
    /\ running' = FALSE
    /\ wire' = NoWire
    /\ self_device_id' = NullText
    /\ UNCHANGED <<layout, rows, seq, now, tz, row_id, failBudget, issued>>
    /\ UNCHANGED <<settings, txn>>
    /\ capture' = NoCapture
    /\ UNCHANGED <<schema, disk, startup, config, generated, w2>>

\* the id get_device_id returns for the config as loaded
NextDeviceId ==
    IF ConfigDeviceId(config) = "" THEN GenerateDeviceId(generated + 1)
    ELSE ConfigDeviceId(config)

\* what get_device_id leaves in the config file
PersistDeviceId ==
    IF ConfigDeviceId(config) = ""
    THEN /\ generated' = generated + 1
         /\ config' = UpdateConfigDeviceId(config, GenerateDeviceId(generated + 1))
    ELSE UNCHANGED <<config, generated>>

\* DatabaseManager.__init__ raises: the directory cannot be made, or the file
\* cannot be opened as a database
InitRaises == disk = "failing" \/ layout = "unknown"

\* RFIDReader.__init__ and the start of run: the config is loaded, the
\* device_id read from it or generated, the store initialised, and the worker
\* thread started.  When the store cannot be initialised the process ends
Start ==
    /\ pc = "down"
    /\ Loads(config)
    /\ generated < MaxIds
    /\ PersistDeviceId
    /\ IF InitRaises
       THEN /\ startup' = "raised"
            /\ UNCHANGED <<layout, rows, seq, indexes, card_reads_new>>
            /\ UNCHANGED <<pc, running, self_device_id>>
       ELSE /\ startup' = "ok"
            /\ Store(InitDatabase(Db))
            /\ pc' = "sleep"
            /\ running' = TRUE
            /\ self_device_id' = NextDeviceId
    /\ webhook_url' = ConfigWebhookUrl(config)
    /\ UNCHANGED <<now, tz, last_card_id, row_id, pending_syncs, outcome,
                   passSent, failBudget, restarts, issued>>
    /\ UNCHANGED <<endpoint, cap, wire, txn>>
    /\ UNCHANGED <<mig, disk, w2, capture>>

----------------------------------------------------------------------------
(* Shutdown: the finally block of run *)

\* the main loop is interrupted: running = False, then sync_thread.join(timeout=5)
Interrupt ==
    /\ running
    /\ pc # "down"
    /\ running' = FALSE
    /\ UNCHANGED <<layout, rows, seq, now, tz, last_card_id, row_id, pc,
                   pending_syncs, outcome, passSent, failBudget, restarts, issued>>
    /\ UNCHANGED <<settings, wire, txn>>
    /\ UNCHANGED env

\* the worker's sleep is over and the loop condition finds running False
WorkerDone ==
    /\ ~running
    /\ pc \in {"sleep", "sleep60"}
    /\ pc' = "done"
    /\ UNCHANGED <<layout, rows, seq, now, tz, last_card_id, row_id,
                   pending_syncs, outcome, passSent, failBudget, restarts, issued>>
    /\ UNCHANGED <<running, settings, wire, txn>>
    /\ UNCHANGED env

\* join returns, because the thread has ended or because 5 seconds have
\* passed, and the process exits; the daemon thread ends with it.  5 seconds
\* pass with the worker in a sleep (30 or 60 seconds) or in a request that
\* has gone out and is not yet answered and recorded (timeout=10)
Exit ==
    /\ ~running
    /\ pc \in {"done", "sleep", "sleep60", "record"}
    /\ pc' = "down"
    /\ last_card_id' = None
    /\ pending_syncs' = <<>>
    /\ outcome' = NoOutcome
    /\ wire' = NoWire
    /\ self_device_id' = NullText
    /\ passSent' = <<>>
    /\ UNCHANGED <<layout, rows, seq, now, tz, row_id, failBudget, restarts,
                   issued, running, settings, txn>>
    /\ capture' = NoCapture
    /\ UNCHANGED <<schema, disk, startup, config, generated, w2>>

----------------------------------------------------------------------------
(* Operator commands *)

\* the operator writes webhook_url into the config file and restarts the
\* service, which loads the file in __init__
Configure ==
    /\ webhook_url = None
    /\ ConfigDeviceId(config) = self_device_id
    /\ pc # "down"
    /\ webhook_url' = Url
    /\ config' = Append(config, UrlLine(Url))
    /\ pc' = "sleep"
    /\ last_card_id' = None
    /\ pending_syncs' = <<>>
    /\ outcome' = NoOutcome
    /\ wire' = NoWire
    /\ passSent' = <<>>
    /\ UNCHANGED <<layout, rows, seq, now, tz, row_id, failBudget, restarts,
                   issued, running, endpoint, cap, txn>>
    /\ UNCHANGED <<schema, disk, startup, self_device_id, generated, w2, capture>>

\* a retry command whose UPDATE has no WHERE clause
RetryFailed_AllRows ==
    /\ rows' = [i \in DOMAIN rows |-> [rows[i] EXCEPT !.next_retry = now]]
    /\ UNCHANGED <<layout, seq, now, tz, last_card_id, row_id, pc,
                   pending_syncs, outcome, passSent, failBudget, restarts, issued>>
    /\ UNCHANGED <<running, settings, wire, txn>>
    /\ UNCHANGED env

\* a retry command that also starts the attempt count again
RetryFailed_ResetAttempts ==
    /\ rows' = [i \in DOMAIN rows |->
                  IF rows[i].sync_status = "pending"
                  THEN [rows[i] EXCEPT !.next_retry = now, !.sync_attempts = 0]
                  ELSE rows[i]]
    /\ UNCHANGED <<layout, seq, now, tz, last_card_id, row_id, pc,
                   pending_syncs, outcome, passSent, failBudget, restarts, issued>>
    /\ UNCHANGED <<running, settings, wire, txn>>
    /\ UNCHANGED env

\* a retry command that schedules the events for the next minute
RetryFailed_NextMinute ==
    /\ rows' = [i \in DOMAIN rows |->
                  IF rows[i].sync_status = "pending"
                  THEN [rows[i] EXCEPT !.next_retry = now + 1]
                  ELSE rows[i]]
    /\ UNCHANGED <<layout, seq, now, tz, last_card_id, row_id, pc,
                   pending_syncs, outcome, passSent, failBudget, restarts, issued>>
    /\ UNCHANGED <<running, settings, wire, txn>>
    /\ UNCHANGED env

\* db_manager.py retry
RetryFailed ==
    /\ rows' = [i \in DOMAIN rows |->
                  IF rows[i].sync_status = "pending"
                  THEN [rows[i] EXCEPT !.next_retry = now]
                  ELSE rows[i]]
    /\ UNCHANGED <<layout, seq, now, tz, last_card_id, row_id, pc,
                   pending_syncs, outcome, passSent, failBudget, restarts, issued>>
    /\ UNCHANGED <<running, settings, wire, txn>>
    /\ UNCHANGED env

\* a cleanup that deletes old events of every status
CleanupOld_AnyStatus(days) ==
    /\ LET old == {i \in DOMAIN rows : rows[i].created_at < now - days * DayMinutes}
       IN  rows' = [i \in DOMAIN rows \ old |-> rows[i]]
    /\ UNCHANGED <<layout, seq, now, tz, last_card_id, row_id, pc,
                   pending_syncs, outcome, passSent, failBudget, restarts, issued>>
    /\ UNCHANGED <<running, settings, wire, txn>>
    /\ UNCHANGED env

\* db_manager.py cleanup --days
CleanupOld(days) ==
    /\ LET old == {i \in DOMAIN rows :
                      /\ rows[i].sync_status = "success"
                      /\ rows[i].created_at < now - days * DayMinutes}
       IN  rows' = [i \in DOMAIN rows \ old |-> rows[i]]
    /\ UNCHANGED <<layout, seq, now, tz, last_card_id, row_id, pc,
                   pending_syncs, outcome, passSent, failBudget, restarts, issued>>
    /\ UNCHANGED <<running, settings, wire, txn>>
    /\ UNCHANGED env

\* a copy that puts the legacy payload into card_value as well
MigratedRow_KeepValue(r) ==
    [device_id |-> r.device_id, card_id |-> r.card_value,
     card_value |-> r.card_value,
     timestamp |-> r.timestamp, sync_status |-> r.sync_status,
     sync_attempts |-> r.sync_attempts,
     last_sync_attempt |-> r.last_sync_attempt, next_retry |-> r.next_retry,
     webhook_response |-> r.webhook_response, created_at |-> r.created_at]

\* the row INSERT INTO card_reads_new ... SELECT makes of a legacy row
MigratedRow(r) ==
    [device_id |-> r.device_id, card_id |-> r.card_value, card_value |-> "",
     timestamp |-> r.timestamp, sync_status |-> r.sync_status,
     sync_attempts |-> r.sync_attempts,
     last_sync_attempt |-> r.last_sync_attempt, next_retry |-> r.next_retry,
     webhook_response |-> r.webhook_response, created_at |-> r.created_at]

\* a schema check that takes every readable store for a legacy one
CheckSchemaVersion_AlwaysOld ==
    IF disk = "failing" \/ layout = "unknown" THEN "unknown" ELSE "old"

\* check_schema_version: PRAGMA table_info(card_reads) on a connection of its
\* own.  It lists no column when there is no such table, and raises when the
\* file cannot be read as a database
CheckSchemaVersion ==
    IF disk = "failing" \/ layout = "unknown" THEN "unknown"
    ELSE IF layout = "new" THEN "new"
    ELSE "old"

\* CREATE TABLE card_reads_new
CreateNewTable(db) ==
    [db EXCEPT !.card_reads_new = [exists |-> TRUE, rows |-> <<>>, seq |-> 0]]

\* INSERT INTO card_reads_new ... SELECT ... FROM card_reads: the new table's
\* AUTOINCREMENT sequence rises to the largest id copied
CopyRows(db) ==
    [db EXCEPT !.card_reads_new =
        [exists |-> TRUE,
         rows |-> [i \in DOMAIN db.rows |-> MigratedRow(db.rows[i])],
         seq |-> SetMax(DOMAIN db.rows)]]

\* DROP TABLE card_reads: the table, its indexes and its sequence go
DropTable(db) ==
    [db EXCEPT !.layout = "none", !.rows = <<>>, !.seq = 0, !.indexes = {}]

\* ALTER TABLE card_reads_new RENAME TO card_reads
RenameTable(db) ==
    [db EXCEPT !.layout = "new", !.rows = db.card_reads_new.rows,
               !.seq = db.card_reads_new.seq, !.card_reads_new = NoTable]

\* CREATE INDEX IF NOT EXISTS idx_sync_status, idx_next_retry
CreateIndexes(db) == [db EXCEPT !.indexes = IndexNames]

\* positions at which no migrate_database runs
MigEnded == {"idle", "returned", "migrated", "raised", "killed"}

\* the migration's transaction is rolled back: by the with block when a
\* statement raises, by SQLite's journal when the process dies
Rollback(pc_) == mig' = [NoMig EXCEPT !.pc = pc_]

\* a run of migrate_database that nothing interrupts, on a healthy store
MigrateDatabase ==
    /\ mig.pc \in MigEnded
    /\ disk = "ok"
    /\ CheckSchemaVersion # "unknown"
    /\ ~card_reads_new.exists
    /\ IF CheckSchemaVersion = "new"
       THEN UNCHANGED <<layout, rows, seq, indexes, card_reads_new>>
       ELSE /\ layout = "old"
            /\ Store(CreateIndexes(RenameTable(DropTable(CopyRows(
                        CreateNewTable(Db))))))
    /\ UNCHANGED <<now, tz, last_card_id, row_id, pc, pending_syncs, outcome,
                   passSent, failBudget, restarts, issued>>
    /\ UNCHANGED <<running, settings, wire, txn>>
    /\ UNCHANGED <<mig, disk, startup, identity, w2, capture>>

\* the same run statement by statement.  migrate_database is called: it opens
\* its connection
MigrateCall ==
    /\ mig.pc \in MigEnded
    /\ mig' = [NoMig EXCEPT !.pc = "check"]
    /\ UNCHANGED <<layout, rows, seq, indexes, card_reads_new>>
    /\ UNCHANGED <<service, disk, startup, identity, w2, capture>>

\* the schema check and the two early returns
MigrateCheck ==
    /\ mig.pc = "check"
    /\ mig' = [mig EXCEPT !.pc = IF CheckSchemaVersion = "old" THEN "create"
                                 ELSE "returned"]
    /\ UNCHANGED <<layout, rows, seq, indexes, card_reads_new>>
    /\ UNCHANGED <<service, disk, startup, identity, w2, capture>>

\* CREATE TABLE card_reads_new: no transaction is open, so the statement is
\* committed as it runs; it raises when the table exists
MigrateCreate ==
    /\ mig.pc = "create"
    /\ IF disk = "failing" \/ card_reads_new.exists
       THEN /\ Rollback("raised")
            /\ UNCHANGED <<layout, rows, seq, indexes, card_reads_new>>
       ELSE /\ mig' = [mig EXCEPT !.pc = "copy"]
            /\ Store(CreateNewTable(Db))
    /\ UNCHANGED <<service, disk, startup, identity, w2, capture>>

\* the INSERT opens the transaction; it raises when there is no card_reads
MigrateCopy ==
    /\ mig.pc = "copy"
    /\ IF disk = "failing" \/ layout # "old"
       THEN Rollback("raised")
       ELSE mig' = [pc |-> "drop", open |-> TRUE, db |-> CopyRows(Db)]
    /\ UNCHANGED <<layout, rows, seq, indexes, card_reads_new>>
    /\ UNCHANGED <<service, disk, startup, identity, w2, capture>>

\* a statement inside the open transaction, which makes after of what the
\* transaction holds: only this connection sees it
InTransaction(from, to, after) ==
    /\ mig.pc = from
    /\ mig.open
    /\ IF disk = "failing"
       THEN Rollback("raised")
       ELSE mig' = [mig EXCEPT !.pc = to, !.db = after]
    /\ UNCHANGED <<layout, rows, seq, indexes, card_reads_new>>
    /\ UNCHANGED <<service, disk, startup, identity, w2, capture>>

\* a DROP TABLE that commits the open transaction as it runs
MigrateDrop_ImplicitCommit ==
    /\ mig.pc = "drop"
    /\ mig.open
    /\ IF disk = "failing"
       THEN /\ Rollback("raised")
            /\ UNCHANGED <<layout, rows, seq, indexes, card_reads_new>>
       ELSE /\ mig' = [mig EXCEPT !.pc = "rename", !.db = DropTable(mig.db)]
            /\ Store(DropTable(mig.db))
    /\ UNCHANGED <<service, disk, startup, identity, w2, capture>>

MigrateDrop == InTransaction("drop", "rename", DropTable(mig.db))

MigrateRename == InTransaction("rename", "index", RenameTable(mig.db))

MigrateIndexes == InTransaction("index", "commit", CreateIndexes(mig.db))

\* conn.commit(): the store becomes what the transaction made of it
MigrateCommit ==
    /\ mig.pc = "commit"
    /\ mig.open
    /\ IF disk = "failing"
       THEN /\ Rollback("raised")
            /\ UNCHANGED <<layout, rows, seq, indexes, card_reads_new>>
       ELSE /\ Rollback("migrated")
            /\ Store(mig.db)
    /\ UNCHANGED <<service, disk, startup, identity, w2, capture>>

\* the migration's process is killed, or the power goes, between two statements
MigrateKilled ==
    /\ mig.pc \notin MigEnded
    /\ Rollback("killed")
    /\ UNCHANGED <<layout, rows, seq, indexes, card_reads_new>>
    /\ UNCHANGED <<service, disk, startup, identity, w2, capture>>

\* the store's location starts or stops giving I/O errors
DiskFails ==
    /\ disk = "ok"
    /\ disk' = "failing"
    /\ UNCHANGED <<layout, rows, seq, service, schema, startup, identity, w2, capture>>

DiskRecovers ==
    /\ disk = "failing"
    /\ disk' = "ok"
    /\ UNCHANGED <<layout, rows, seq, service, schema, startup, identity, w2, capture>>

----------------------------------------------------------------------------
(* Time *)

TickMinute ==
    /\ now % DayMinutes < MaxMinute
    /\ now' = now + 1
    /\ UNCHANGED <<layout, rows, seq, tz, last_card_id, row_id, pc,
                   pending_syncs, outcome, passSent, failBudget, restarts, issued>>
    /\ UNCHANGED <<running, settings, wire, txn>>
    /\ UNCHANGED env

\* a whole age window passes while the service is off or idle (no drain
\* pass lasts that long: send_webhook gives up after 10 seconds)
TickWindow ==
    /\ pc \in {"sleep", "sleep60", "down"}
    /\ now <= MaxMinute
    /\ now' = now + DefaultMaxAgeDays * DayMinutes
    /\ UNCHANGED <<layout, rows, seq, tz, last_card_id, row_id, pc,
                   pending_syncs, outcome, passSent, failBudget, restarts, issued>>
    /\ UNCHANGED <<running, settings, wire, txn>>
    /\ UNCHANGED env

\* time passes until the earliest retry that is not yet due
NotYetDue ==
    {rows[i].next_retry : i \in {j \in DOMAIN rows :
        /\ rows[j].sync_status = "pending"
        /\ rows[j].next_retry # NULL
        /\ rows[j].next_retry > now}}

TickToDue ==
    /\ NotYetDue # {}
    /\ now' = SetMin(NotYetDue)
    /\ UNCHANGED <<layout, rows, seq, tz, last_card_id, row_id, pc,
                   pending_syncs, outcome, passSent, failBudget, restarts, issued>>
    /\ UNCHANGED <<running, settings, wire, txn>>
    /\ UNCHANGED env

----------------------------------------------------------------------------

\* the service with a fresh store, and the operator's retry command
Next ==
    \/ \E c \in Cards : ReadCard(c, CardText[c])
    \/ Fetch
    \/ Send
    \/ Record
    \/ RetryFailed
    \/ TickMinute

Spec == Init /\ [][Next]_vars

\* the same over a longer time: events can leave the age window
InitAge == FreshStore /\ tz = 0 /\ Boot(MaxFailures)

NextAge == Next \/ TickWindow

SpecAge == InitAge /\ [][NextAge]_vars

\* the store over its life: a legacy or a fresh store, the service, the
\* operator's cleanup command and the migration
InitStore == (FreshStore \/ LegacyStore) /\ tz = 0 /\ Boot(MaxFailures)

NextStore ==
    \/ \E c \in Cards : ReadCard(c, CardText[c])
    \/ Fetch
    \/ Send
    \/ Record
    \/ \E d \in CleanupDays : CleanupOld(d)
    \/ MigrateDatabase
    \/ TickMinute
    \/ TickWindow

SpecStore == InitStore /\ [][NextStore]_vars

\* a long outage of the endpoint: one card is presented, the worker runs a
\* pass whenever a retry is due, and the endpoint fails at most MaxOutage times
InitOutage == FreshStore /\ tz \in TzOffsets /\ Boot(MaxOutage)

NextOutage ==
    \/ ReadCard("CARD-7", CardText["CARD-7"])
    \/ Fetch
    \/ Send
    \/ Record
    \/ TickToDue

SpecOutage == InitOutage /\ [][NextOutage]_vars

\* the same with the scheduling the worker thread has: it is never starved,
\* and time does not stop
SpecLive ==
    /\ InitOutage
    /\ [][NextOutage]_vars
    /\ WF_vars(Fetch) /\ WF_vars(Send) /\ WF_vars(Record)
    /\ WF_vars(TickToDue)

\* the process is stopped and started again; time passes while it is down
TickWhileDown == pc = "down" /\ (TickMinute \/ TickWindow)

NextCrash ==
    \/ \E c \in Cards : ReadCard(c, CardText[c])
    \/ Fetch
    \/ Send
    \/ Record
    \/ Stop
    \/ Start
    \/ TickWhileDown
    \/ TickToDue

SpecCrash ==
    /\ InitAge
    /\ [][NextCrash]_vars
    /\ WF_vars(Fetch) /\ WF_vars(Send) /\ WF_vars(Record)
    /\ WF_vars(Start) /\ WF_vars(TickToDue)

\* capture thread and worker on the same store, statement by statement
NextConc ==
    \/ \E c \in Cards : InsertBegin(c, CardText[c])
    \/ InsertCommit
    \/ Fetch
    \/ Send
    \/ UpdateBegin
    \/ UpdateCommit
    \/ TickMinute

SpecConc == Init /\ [][NextConc]_vars

\* an endpoint that can answer in every way send_webhook tells apart
InitReplies ==
    FreshStore /\ tz = 0 /\ BootWith(MaxFailures, Url, AllReplies, MaxId)

SpecReplies == InitReplies /\ [][Next]_vars

\* the worker loop with iterations that raise, under the scheduling the
\* thread has
NextWorker ==
    \/ \E c \in Cards : ReadCard(c, CardText[c])
    \/ Fetch
    \/ Send
    \/ Record
    \/ Raise
    \/ TickMinute

SpecWorker ==
    /\ InitAge
    /\ [][NextWorker]_vars
    /\ WF_vars(Fetch) /\ WF_vars(Send) /\ WF_vars(Record)

\* a service started without webhook_url, which the operator sets later; the
\* endpoint answers 200 to every request
InitNoUrl == FreshStore /\ tz = 0 /\ BootWith(0, None, {Reply200}, MaxId)

NextNoUrl ==
    \/ ReadCard("CARD-7", CardText["CARD-7"])
    \/ Fetch
    \/ Send
    \/ Record
    \/ Configure
    \/ TickToDue

SpecNoUrl ==
    /\ InitNoUrl
    /\ [][NextNoUrl]_vars
    /\ WF_vars(Fetch) /\ WF_vars(Send) /\ WF_vars(Record)
    /\ WF_vars(TickToDue)

\* the service until it is shut down
NextShutdown ==
    \/ \E c \in Cards : ReadCard(c, CardText[c])
    \/ Fetch
    \/ Send
    \/ Record
    \/ Interrupt
    \/ WorkerDone
    \/ Exit
    \/ TickMinute

SpecShutdown == InitAge /\ [][NextShutdown]_vars

\* a sequence of card presentations, each card with any text, and the worker
InitCapture ==
    FreshStore /\ tz = 0 /\ BootWith(0, Url, {Reply200}, MaxEvents)

NextCapture ==
    \/ \E c \in Cards, v \in Texts : ReadCard(c, v)
    \/ Fetch
    \/ Send
    \/ Record

SpecCapture == InitCapture /\ [][NextCapture]_vars

\* the service on a store whose location fails and recovers
InitFaults == FreshStore /\ tz = 0 /\ BootWith(1, Url, {Reply200} \cup FailingReplies, MaxId)

NextFaults ==
    \/ \E c \in Cards : ReadCard(c, CardText[c])
    \/ Fetch
    \/ Send
    \/ Record
    \/ DiskFails
    \/ DiskRecovers
    \/ TickMinute

SpecFaults == InitFaults /\ [][NextFaults]_vars

\* the service is started, stopped and started again, with any config file,
\* on a new installation; the store's location can fail
InitStartup ==
    /\ NoStore
    /\ tz = 0
    /\ \E file \in ConfigFiles : HaltedWith(file)

NextStartup ==
    \/ Start
    \/ Stop
    \/ ReadCard("CARD-7", CardText["CARD-7"])
    \/ DiskFails
    \/ DiskRecovers

SpecStartup == InitStartup /\ [][NextStartup]_vars

\* one service with the operator's retry command, and a second service
\* process that is started on the same store
InitWorkers ==
    FreshStore /\ tz = 0 /\ BootWith(1, Url, {Reply200} \cup FailingReplies, MaxId)

NextWorkers ==
    \/ \E c \in Cards : ReadCard(c, CardText[c])
    \/ Fetch
    \/ Send
    \/ Record
    \/ RetryFailed
    \/ Start2
    \/ Fetch2
    \/ Send2
    \/ Record2

SpecWorkers == InitWorkers /\ [][NextWorkers]_vars

\* the service and both operator commands that write: retry and cleanup
NextOps ==
    \/ Next
    \/ \E d \in CleanupDays : CleanupOld(d)

SpecOps == InitAge /\ [][NextOps]_vars

\* the capture loop alone, with a sensor and a store that can fail, in a
\* process that is stopped and started again
InitLoop == FreshStore /\ tz = 0 /\ BootWith(0, Url, {Reply200}, MaxId)

NextLoop ==
    \/ \E c \in Cards : RunLoop(c, CardText[c])
    \/ ReadError
    \/ DiskFails
    \/ DiskRecovers
    \/ Stop
    \/ Start

SpecLoop == InitLoop /\ [][NextLoop]_vars

\* the migration, run on whatever the store's file holds, before the service
\* is started and again later; the location can fail at any statement and the
\* migration can be killed at any statement
InitMigrate ==
    /\ \/ LegacyTable
       \/ FreshStore
       \/ NoStore
       \/ UnreadableStore
    /\ tz = 0
    /\ Halted

NextMigrate ==
    \/ MigrateCall
    \/ MigrateCheck
    \/ MigrateCreate
    \/ MigrateCopy
    \/ MigrateDrop
    \/ MigrateRename
    \/ MigrateIndexes
    \/ MigrateCommit
    \/ MigrateKilled
    \/ DiskFails
    \/ DiskRecovers
    \/ (mig.pc \in MigEnded /\ Start)
    \/ ReadCard("CARD-7", CardText["CARD-7"])

SpecMigrate == InitMigrate /\ [][NextMigrate]_vars

----------------------------------------------------------------------------
(* Properties *)

\* ids of the tuples of a list get_pending_syncs returned
Ids(batch) == {batch[k].row_id : k \in 1..Len(batch)}

\* the ids get_pending_syncs can return for an age window of max_age_days
Returned(max_age_days) == UNION {Ids(b) : b \in GetPendingSyncs(max_age_days)}

\* this step is the call of send_webhook for row i
Sends(i) == pc = "send" /\ pc' = "record" /\ Head(pending_syncs).row_id = i

Delivered(i) == i \in DOMAIN rows /\ rows[i].sync_status = "success"

\* C3: every event starts 'pending', and an event whose sync_status is
\* 'success' keeps that status in every later state, whatever drain passes,
\* appends and operator retry commands follow.
C3_StatusMonotone ==
    [][/\ \A i \in DOMAIN rows' \ DOMAIN rows : rows'[i].sync_status = "pending"
       /\ \A i \in DOMAIN rows \cap DOMAIN rows' :
             rows[i].sync_status = "success" => rows'[i].sync_status = "success"]_vars

\* a delivered event, and a later drain pass at work on another event
C3_Witness ==
    \E i \in DOMAIN rows :
        /\ rows[i].sync_status = "success"
        /\ rows[i].last_sync_attempt < now
        /\ pc = "record"

\* C4: once an event is recorded as delivered, get_pending_syncs does not
\* return it for any max_age_days, the worker does not call send_webhook for
\* it, and its next_retry and sync_attempts stay as they are.
C4_DeliveredIsFinal ==
    /\ [](\A i \in DOMAIN rows :
            Delivered(i) => \A d \in MaxAges : i \notin Returned(d))
    /\ [][\A i \in DOMAIN rows \cap DOMAIN rows' :
            Delivered(i) =>
                /\ rows'[i].next_retry = rows[i].next_retry
                /\ rows'[i].sync_attempts = rows[i].sync_attempts
                /\ ~Sends(i)]_vars

\* a delivered event whose next_retry has passed, while the worker sends
\* another event in a later pass
C4_Witness ==
    \E i \in DOMAIN rows :
        /\ Delivered(i)
        /\ rows[i].next_retry <= now
        /\ rows[i].last_sync_attempt < now
        /\ pc = "record"
        /\ Head(pending_syncs).row_id # i

\* C5: within one drain pass send_webhook is called in the order of the ids:
\* of two due events the one inserted first is sent first, also when both
\* were inserted within the same clock second.
C5_FifoWithinPass ==
    \A k, l \in 1..Len(passSent) : k < l => passSent[k] < passSent[l]

\* C6: a failed attempt recorded at time t leaves sync_attempts one higher
\* (n) and next_retry at t + backoff(n) minutes, whatever the host's
\* time-zone offset, so that the event is not due before that time.
C6_RetryAfterBackoff ==
    [][\A i \in DOMAIN rows \cap DOMAIN rows' :
          rows'[i].sync_attempts # rows[i].sync_attempts =>
              /\ rows'[i].sync_attempts = rows[i].sync_attempts + 1
              /\ rows'[i].last_sync_attempt = now
              /\ rows'[i].next_retry = now + Backoff(rows'[i].sync_attempts)
              /\ i \notin Returned(DefaultMaxAgeDays)']_vars

\* C8: an insert into an empty store, followed at once by get_pending_syncs
\* with any max_age, returns exactly the inserted event: the id that
\* insert_card_read returned, the device, card id and card value given,
\* sync_attempts 0; and the event is pending.
C8_InsertThenFetch ==
    [][(rows = EmptyStore /\ rows' # rows) =>
          /\ DOMAIN rows' = {row_id'}
          /\ rows'[row_id'].sync_status = "pending"
          /\ \A d \in MaxAges :
                GetPendingSyncs(d)' =
                    {<<[row_id |-> row_id', device_id |-> DeviceId,
                        card_id |-> last_card_id',
                        card_value |-> CardText[last_card_id'],
                        timestamp |-> now, attempts |-> 0,
                        last_attempt |-> NULL]>>}]_vars

\* the store right after the first insert
C8_Witness ==
    /\ DOMAIN rows = {row_id}
    /\ rows[row_id].created_at = now
    /\ rows[row_id].sync_attempts = 0
    /\ rows[row_id].card_id = last_card_id
    /\ pc = "sleep"

\* a pending event that has left the worker's age window
Aged(i) ==
    /\ i \in DOMAIN rows
    /\ rows[i].sync_status = "pending"
    /\ rows[i].created_at < now - DefaultMaxAgeDays * DayMinutes

\* C9 as stated: a pending event older than the age window is never returned
\* by get_pending_syncs, never sent, and no step of the worker or the capture
\* path changes or deletes its row.
C9_AgedEventUntouched ==
    /\ [](\A i \in DOMAIN rows : Aged(i) => i \notin Returned(DefaultMaxAgeDays))
    /\ [][\A i \in DOMAIN rows :
            Aged(i) =>
                /\ ~Sends(i)
                /\ RetryFailed \/ (i \in DOMAIN rows' /\ rows'[i] = rows[i])]_vars

\* C9 as amended: a pending event older than the age window is never returned
\* by get_pending_syncs; unless the running drain pass fetched it before it
\* left the window, it enters no batch (so it is never sent) and no step of
\* the worker or the capture path changes or deletes its row.
C9_AgedEventOutsideBatch ==
    /\ [](\A i \in DOMAIN rows : Aged(i) => i \notin Returned(DefaultMaxAgeDays))
    /\ [][\A i \in DOMAIN rows :
            (Aged(i) /\ i \notin Ids(pending_syncs)) =>
                /\ i \notin Ids(pending_syncs')
                /\ RetryFailed \/ (i \in DOMAIN rows' /\ rows'[i] = rows[i])]_vars

\* an event that has left the window, while a later pass sends another one
C9_Witness ==
    \E i \in DOMAIN rows :
        /\ Aged(i)
        /\ rows[i].next_retry <= now
        /\ pc = "record"
        /\ i \notin Ids(pending_syncs)

\* C10: every id an insert assigns is larger than every id assigned before
\* (so none is assigned twice), also after cleanup deletions and a migration;
\* and an event's device_id, card id, card value and created_at never change
\* (the migration carries the legacy payload over as the card id).
C10_IdsNeverReused ==
    [][/\ \A i \in DOMAIN rows' \ DOMAIN rows : i > issued
       /\ \A i \in DOMAIN rows \cap DOMAIN rows' :
             /\ rows'[i].device_id = rows[i].device_id
             /\ rows'[i].created_at = rows[i].created_at
             /\ IF layout = "new"
                THEN /\ rows'[i].card_id = rows[i].card_id
                     /\ rows'[i].card_value = rows[i].card_value
                ELSE IF layout' = "new"
                THEN rows'[i].card_id = rows[i].card_value
                ELSE rows'[i].card_value = rows[i].card_value]_vars

\* the delays 1, 2, 4, ... minutes, each twice the one before, up to the cap
RECURSIVE Doubling(_)
Doubling(n) == IF n = 1 THEN 1 ELSE Min(2 * Doubling(n - 1), 1440)

C1_EventualDelivery ==
    \A i \in 1..MaxId : (i \in DOMAIN rows) ~> Delivered(i)

\* C2: stopping and restarting the process loses no row, and every event
\* that is pending while the process is down is sent by a pass after the
\* restart.
C2_CrashRecovery ==
    /\ [][\A i \in DOMAIN rows : i \in DOMAIN rows']_vars
    /\ \A i \in 1..MaxId :
          (pc = "down" /\ i \in DOMAIN rows /\ rows[i].sync_status = "pending")
              ~> (pc = "record" /\ Head(pending_syncs).row_id = i)

\* C11: sync_attempts of an event starts at 0 and never decreases, whatever
\* drain passes, operator retries and appends are interleaved; the step that
\* records a delivery leaves it as it is; and the delay a recorded failure
\* adds is a function of the new sync_attempts alone, the same for every
\* event, clock reading, time zone and response.
C11_AttemptsOnlyGrow ==
    [][/\ \A i \in DOMAIN rows' \ DOMAIN rows : rows'[i].sync_attempts = 0
       /\ \A i \in DOMAIN rows \cap DOMAIN rows' :
             /\ rows'[i].sync_attempts >= rows[i].sync_attempts
             /\ rows'[i].sync_status = "success" =>
                    rows'[i].sync_attempts = rows[i].sync_attempts
             /\ rows'[i].sync_attempts # rows[i].sync_attempts =>
                    rows'[i].next_retry - (now + tz)
                        = Backoff(rows'[i].sync_attempts)]_vars

\* an event delivered after a failed attempt and an operator retry: the
\* count of the failure is still there
C11_Witness ==
    \E i \in DOMAIN rows :
        /\ rows[i].sync_status = "success"
        /\ rows[i].sync_attempts >= 1
        /\ rows[i].next_retry = rows[i].last_sync_attempt

\* time of the last write that changed the delivery state of row r: a
\* recorded attempt, or else the insert
LastWrite(r) ==
    IF r.last_sync_attempt = NULL THEN r.created_at ELSE r.last_sync_attempt

\* C12: in every state the next_retry of each event is at or after the time
\* of the last write that changed its delivery state (insert, recorded
\* failure or recorded success).
C12_NextRetryNotBeforeWrite ==
    \A i \in DOMAIN rows :
        rows[i].next_retry # NULL => rows[i].next_retry >= LastWrite(rows[i])

\* what the columns of a row are after whole writes only: an insert, then
\* recorded failures, then at most one recorded success
WholeRow(r) ==
    /\ r.sync_attempts = 0 =>
          /\ r.next_retry = r.created_at
          /\ r.sync_status = "pending" =>
                r.last_sync_attempt = NULL /\ r.webhook_response = NullText
    /\ r.sync_attempts >= 1 =>
          /\ r.last_sync_attempt # NULL
          /\ r.webhook_response # NullText
          /\ r.sync_status = "pending" =>
                r.next_retry = r.last_sync_attempt + tz + Backoff(r.sync_attempts)
    /\ r.sync_status = "success" =>
          r.last_sync_attempt # NULL /\ r.webhook_response # NullText

\* C13: with the capture thread inserting and the worker reading and
\* updating the same store in any interleaving of their statements, no
\* committed row disappears, a commit changes the one row it is about and
\* brings that row to the outcome recorded, every row of the table is the
\* result of whole writes, and a batch holds committed rows as they are.
C13_SerializedWrites ==
    /\ [](\A i \in DOMAIN rows : WholeRow(rows[i]))
    /\ [](\A k \in 1..Len(pending_syncs) :
            /\ pending_syncs[k].row_id \in DOMAIN rows
            /\ pending_syncs[k] = Tuple(pending_syncs[k].row_id))
    /\ [][/\ \A i \in DOMAIN rows : i \in DOMAIN rows'
          /\ row_id' # row_id => row_id' \in DOMAIN rows' \ DOMAIN rows
          /\ \A i \in DOMAIN rows :
                rows'[i] # rows[i] =>
                    /\ pc = "commit"
                    /\ Head(pending_syncs).row_id = i
                    /\ IF outcome.success
                       THEN rows'[i].sync_status = "success"
                       ELSE rows'[i].sync_attempts = rows[i].sync_attempts + 1
          /\ (pc = "commit" /\ pc' # "commit") =>
                rows'[Head(pending_syncs).row_id]
                    # rows[Head(pending_syncs).row_id]]_vars

\* the worker has an update ready to commit for one event while the capture
\* thread has committed another event since the pass began
C13_Witness ==
    /\ pc = "commit"
    /\ txn["worker"].open
    /\ \E i \in DOMAIN rows :
          /\ i \notin Ids(pending_syncs)
          /\ rows[i].sync_status = "pending"
          /\ rows[i].last_sync_attempt = NULL

\* C14: in a drain pass, an attempt that fails in any way (a status other
\* than 200, a transport error, an exception raised while the event is
\* handled) is recorded as one more failed attempt of that event, which
\* stays pending; and the batch loses only the event just recorded, so the
\* pass goes on to send every event that is left.
C14_FailureKeepsBatch ==
    [][/\ (pc = "record" /\ pc' # "record") =>
             LET i == Head(pending_syncs).row_id
             IN  /\ ~outcome.success =>
                       /\ rows'[i].sync_attempts = rows[i].sync_attempts + 1
                       /\ rows'[i].sync_status = "pending"
                       /\ rows'[i].last_sync_attempt = now
                 /\ pending_syncs' = Tail(pending_syncs)
                 /\ Tail(pending_syncs) # <<>> => pc' = "send"
       /\ (pc # "record" /\ pending_syncs # <<>>) =>
             pending_syncs' = pending_syncs
       /\ (pc = "send" /\ pc' = "record") =>
             passSent' = Append(passSent, Head(pending_syncs).row_id)]_vars

\* the first event of a batch has failed with an exception or a transport
\* error, and the pass is about to send the next one
C14_Witness ==
    /\ pc = "send"
    /\ Len(passSent) = 1
    /\ rows[passSent[1]].sync_attempts = 1
    /\ rows[passSent[1]].webhook_response \in {"boom", "timed out"}
    /\ Head(pending_syncs).row_id # passSent[1]

\* C15: while running is set the worker thread never ends: an iteration
\* that completes is followed by the 30 second sleep, one that raises by the
\* 60 second sleep, every iteration ends in one of the two, and from either
\* sleep the worker starts the next pass, which sends what is due.
C15_WorkerNeverEnds ==
    /\ [](running => pc \in {"sleep", "sleep60", "send", "record"})
    /\ [][(pc \in {"send", "record"} /\ pc' \notin {"send", "record"}) =>
            IF pc = "record" /\ rows' # rows
            THEN pc' = "sleep"
            ELSE pc' = "sleep60"]_vars
    /\ (pc \in {"send", "record"}) ~> (pc \in {"sleep", "sleep60"})
    /\ (pc = "sleep" /\ DueIds(DefaultMaxAgeDays) # {}) ~> (pc = "send")
    /\ (pc = "sleep60" /\ DueIds(DefaultMaxAgeDays) # {}) ~> (pc = "send")

\* the worker sleeps after an iteration that raised, with an event due
C15_Witness ==
    /\ pc = "sleep60"
    /\ running
    /\ \E i \in DueIds(DefaultMaxAgeDays) : rows[i].sync_attempts >= 1

\* C16: without a webhook_url send_webhook fails without a request, the
\* failure is recorded like any other (sync_attempts one higher, next_retry
\* the backoff later), and once the url is configured every event in the
\* store is delivered.
C16_NoUrlThenDelivered ==
    /\ [][(webhook_url = None /\ pc = "send" /\ pc' = "record") =>
            /\ ~outcome'.success
            /\ outcome'.response = "No webhook URL configured"
            /\ ~wire'.sent]_vars
    /\ [][(webhook_url = None /\ webhook_url' = None
                /\ pc = "record" /\ pc' # "record") =>
            LET i == Head(pending_syncs).row_id
            IN  /\ rows'[i].sync_attempts = rows[i].sync_attempts + 1
                /\ rows'[i].next_retry = now + Backoff(rows'[i].sync_attempts)]_vars
    /\ \A i \in 1..MaxId :
          (webhook_url # None /\ i \in DOMAIN rows) ~> Delivered(i)

\* C17: an attempt counts as delivered exactly when a request was made and
\* answered with status 200; status 201, any other status, a timeout or a
\* transport error is a failure.  The text that comes with the result (the
\* body of the 200 answer, the error text) is what the recording step stores
\* as webhook_response, in place of what was there, and the event becomes
\* 'success' exactly when the attempt counted as delivered.
C17_SuccessOnly200 ==
    /\ [][(pc = "send" /\ pc' = "record") =>
            /\ outcome'.success <=> (wire'.sent /\ wire'.status = 200)
            /\ wire'.sent =>
                  LET reply == CHOOSE r \in endpoint : r.status = wire'.status
                  IN  reply.status \in {200, NoResponse} =>
                          outcome'.response = reply.text]_vars
    /\ [][(pc = "record" /\ pc' # "record") =>
            LET i == Head(pending_syncs).row_id
            IN  /\ rows'[i].webhook_response = outcome.response
                /\ rows'[i].sync_status = "success" <=> outcome.success]_vars

\* a 201 answer has been classified as a failure, for an event that holds
\* the text of an earlier attempt
C17_Witness ==
    /\ pc = "record"
    /\ wire.sent
    /\ wire.status = 201
    /\ ~outcome.success
    /\ rows[Head(pending_syncs).row_id].webhook_response
           \notin {NullText, outcome.response}

\* C18: the body of every request carries the device_id, card_id and
\* card_value stored in the row of the event it is sent for, also when the
\* row was captured under another device identity than the process has.
C18_BodyIsStoredEvent ==
    [][(pc = "send" /\ pc' = "record" /\ wire'.sent) =>
          LET r == rows[Head(pending_syncs).row_id]
          IN  /\ wire'.card_id = r.card_id
              /\ wire'.card_value = r.card_value
              /\ wire'.device_id = r.device_id]_vars

\* C19: once running is False the worker starts no new pass from its sleep;
\* a pass that is under way is finished before the process exits; and the
\* process does not exit with an event that send_webhook was called for and
\* whose outcome is not recorded.
C19_GracefulShutdown ==
    /\ [][(~running /\ pc \in {"sleep", "sleep60"}) =>
            pc' \in {pc, "done", "down"}]_vars
    /\ [][(pc # "down" /\ pc' = "down") =>
            /\ pc \notin {"send", "record"}
            /\ pending_syncs = <<>>]_vars

\* C20: a read creates an event exactly when its card_id differs from the
\* card_id of the read before it (or it is the first read), whatever the
\* text: a step that leaves last_card_id as it is adds no row, a step that
\* changes it adds one row, which has the new card_id; so A, B, A gives
\* three events.
C20_DedupOnPreviousCard ==
    [][/\ last_card_id' = last_card_id => DOMAIN rows' = DOMAIN rows
       /\ last_card_id' # last_card_id =>
             /\ DOMAIN rows' = DOMAIN rows \cup {row_id'}
             /\ row_id' \notin DOMAIN rows
             /\ rows'[row_id'].card_id = last_card_id'
             /\ last_card_id' \in Cards]_vars

\* the events of the presentations A, B, A
C20_Witness ==
    /\ DOMAIN rows = {1, 2, 3}
    /\ rows[1].card_id = rows[3].card_id
    /\ rows[2].card_id # rows[1].card_id
    /\ rows[1].card_value # rows[3].card_value
    /\ last_card_id = rows[3].card_id

\* what the store's file holds
OnDisk == <<layout, rows, seq, indexes, card_reads_new>>

\* C21: migrate_database on a store that has the current layout, such as a
\* second run after a successful one, changes no table, no row and no index:
\* no step of a migration that finds the current layout changes the store.
C21_MigrationIdempotent ==
    [][(mig' # mig /\ layout = "new") => OnDisk' = OnDisk]_vars

\* a second run has returned on a store the first run migrated
C21_Witness ==
    /\ mig.pc = "returned"
    /\ layout = "new"
    /\ \E i \in DOMAIN rows : rows[i].card_id = "XYZ789" /\ rows[i].card_value = ""

\* C22: the migration of a legacy store yields for every legacy row exactly
\* one row with the same id, whose card_id is the legacy payload and whose
\* card_value is empty, with device_id, status, attempt count, timestamps and
\* last response unchanged; it drops no row and adds none.
C22_RowMapping ==
    [][(layout = "old" /\ layout' = "new") =>
          /\ DOMAIN rows' = DOMAIN rows
          /\ \A i \in DOMAIN rows :
                /\ rows'[i].card_id = rows[i].card_value
                /\ rows'[i].card_value = ""
                /\ rows'[i].device_id = rows[i].device_id
                /\ rows'[i].sync_status = rows[i].sync_status
                /\ rows'[i].sync_attempts = rows[i].sync_attempts
                /\ rows'[i].timestamp = rows[i].timestamp
                /\ rows'[i].created_at = rows[i].created_at
                /\ rows'[i].last_sync_attempt = rows[i].last_sync_attempt
                /\ rows'[i].next_retry = rows[i].next_retry
                /\ rows'[i].webhook_response = rows[i].webhook_response]_vars

\* a table of two legacy rows has been migrated
C22_Witness ==
    /\ mig.pc = "migrated"
    /\ layout = "new"
    /\ DOMAIN rows = {1, 2}
    /\ rows[1].card_id = "ABC123" /\ rows[1].sync_status = "success"
    /\ rows[2].card_id = "XYZ789" /\ rows[2].sync_attempts = 3

\* the layout of the store cannot be determined
Undetermined == disk = "failing" \/ layout \in {"unknown", "none"}

\* C23: when the layout cannot be determined (the schema check fails, or the
\* store has no card_reads table), migrate_database raises and leaves the
\* store as it is: it does not return normally and does not go on as for a
\* legacy or a current store.
C23_UnknownLayoutRaises ==
    [][(mig.pc = "check" /\ mig'.pc \notin {"check", "killed"} /\ Undetermined)
          => (mig'.pc = "raised" /\ OnDisk' = OnDisk)]_vars

\* C24: the migration replaces the legacy table atomically and loses no row:
\* every step from a store with the legacy table either leaves the whole
\* legacy table in place, as every failing and every interrupted step does, or
\* is the commit that puts the whole migrated table under the name card_reads.
C24_AtomicReplace ==
    [][layout = "old" =>
          \/ layout' = "old" /\ rows' = rows
          \/ /\ mig'.pc = "migrated"
             /\ layout' = "new"
             /\ DOMAIN rows' = DOMAIN rows]_vars

\* the migration has dropped the legacy table in its transaction, the
\* location fails, and the store still holds the legacy rows
C24_Witness ==
    /\ mig.pc = "rename"
    /\ mig.open
    /\ mig.db.layout = "none"
    /\ disk = "failing"
    /\ layout = "old"
    /\ DOMAIN rows # {}

\* a card is presented that is not the previous one, and the INSERT fails
FailedInsert ==
    /\ last_card_id' # last_card_id
    /\ InsertRaises
    /\ disk' = disk

\* C25: when insert_card_read fails with a store error no row is added, the
\* capture loop goes on reading cards, and the event is kept nowhere: a row
\* that appears later is the card presented in that very step, which the
\* reader did not take for a repetition of the previous one.
C25_FailedInsertDropsEvent ==
    [][/\ FailedInsert => (rows' = rows /\ seq' = seq /\ running' = running
                            /\ row_id' = row_id /\ pc' = pc)
       /\ \A i \in DOMAIN rows' \ DOMAIN rows :
             /\ rows'[i].card_id = last_card_id'
             /\ last_card_id' # last_card_id
             /\ DOMAIN rows' = DOMAIN rows \cup {i}]_vars

\* CARD-7 was presented while the location failed; the location works again,
\* the service runs, and the store has never held a row
C25_Witness ==
    /\ disk = "ok"
    /\ running
    /\ last_card_id = "CARD-7"
    /\ rows = EmptyStore
    /\ seq = 0

\* C26: when the config has no device_id at startup, one is generated and
\* written back to the config file, so that every later startup reads the same
\* device_id, whatever the file contains: once an id has been generated, every
\* running process uses that first id.
C26_IdentityPersisted ==
    (pc # "down" /\ generated >= 1) => self_device_id = GenerateDeviceId(1)

\* C27: init_database on a store that has the current schema leaves every row
\* as it is and the table and both indexes in place, and when the location
\* cannot be created or opened the initialisation raises: the process starts
\* only on a location that works, with rows unchanged and both indexes there.
C27_InitIdempotent ==
    [][(pc = "down" /\ pc' # "down") =>
          /\ ~InitRaises
          /\ layout' = "new"
          /\ indexes' = IndexNames
          /\ layout = "new" => (rows' = rows /\ seq' = seq)]_vars

\* the service has been started again on a store that holds events
C27_Witness ==
    /\ pc # "down"
    /\ restarts >= 1
    /\ startup = "ok"
    /\ layout = "new"
    /\ indexes = IndexNames
    /\ DOMAIN rows # {}

\* update_sync_status has written an outcome into row i
Recorded(i) ==
    /\ rows[i].last_sync_attempt # NULL
    /\ rows[i].webhook_response # NullText
    /\ Delivered(i) \/ rows[i].sync_attempts >= 1

\* C28: within a drain pass deliveries are strictly sequential: when
\* send_webhook is called for an event of the batch, the outcome of every
\* event sent earlier in the pass is in the store, and the one request that is
\* not yet recorded is that of the event at the head of the batch.
C28_SequentialDelivery ==
    /\ pc = "send" => \A k \in 1..Len(passSent) : Recorded(passSent[k])
    /\ pc = "record" =>
          /\ passSent # <<>>
          /\ passSent[Len(passSent)] = Head(pending_syncs).row_id
          /\ \A k \in 1..(Len(passSent) - 1) : Recorded(passSent[k])

\* the first event of a batch of two is delivered and recorded, the second is
\* about to be sent
C28_Witness ==
    /\ pc = "send"
    /\ Len(passSent) = 1
    /\ Delivered(passSent[1])
    /\ Len(pending_syncs) = 1
    /\ rows[Head(pending_syncs).row_id].sync_attempts = 0

\* the endpoint has answered 200 to a request for event i
Accepted(i) ==
    \/ Delivered(i)
    \/ pc = "record" /\ outcome.success /\ Head(pending_syncs).row_id = i
    \/ w2.pc = "record" /\ w2.outcome.success /\ Head(w2.pending_syncs).row_id = i

\* the second worker calls send_webhook for event i
Sends2(i) ==
    w2.pc = "send" /\ w2'.pc = "record" /\ Head(w2.pending_syncs).row_id = i

\* C29: with exactly one sync worker on a store, beside appends and operator
\* retry commands and without crashes and store write failures, no event is
\* sent again after the endpoint has answered 200 for it.  (With two workers
\* it can be: the state SentTwice is reachable.)
C29_OneWorkerNoResend ==
    [][w2.pc = "off" /\ w2'.pc = "off" =>
          \A i \in DOMAIN rows : Accepted(i) => ~Sends(i)]_vars

\* the only worker has delivered one event, the operator's retry command has
\* run, and the worker sends another event
C29_Witness ==
    /\ w2.pc = "off"
    /\ pc = "record"
    /\ Delivered(1)
    /\ Head(pending_syncs).row_id = 2
    /\ rows[2].sync_attempts = 1
    /\ rows[2].next_retry = now

\* two workers: the endpoint has answered 200 for event i to both of them
SentTwice ==
    \E i \in DOMAIN rows :
        /\ Delivered(i)
        /\ w2.pc = "record" /\ w2.outcome.success
        /\ Head(w2.pending_syncs).row_id = i

\* event i is pending and was created inside the age window
InWindow(i) ==
    /\ rows[i].sync_status = "pending"
    /\ rows[i].created_at >= now - DefaultMaxAgeDays * DayMinutes

\* C30: the operator's retry command makes every pending event inside the age
\* window due at the next drain pass, with next_retry set to the current
\* time, and leaves the sync_attempts of every event and every field of the
\* delivered events as they are.
C30_RetryFrame ==
    [][RetryFailed =>
          \A i \in DOMAIN rows :
             /\ rows'[i].sync_attempts = rows[i].sync_attempts
             /\ Delivered(i) => rows'[i] = rows[i]
             /\ rows[i].sync_status = "pending" => rows'[i].next_retry = now
             /\ InWindow(i) => i \in Returned(DefaultMaxAgeDays)']_vars

\* an event has failed twice within one minute: the second attempt came
\* after the retry command, and the backoff went on from the first
C30_Witness ==
    \E i \in DOMAIN rows :
        /\ rows[i].sync_status = "pending"
        /\ rows[i].sync_attempts = 2
        /\ rows[i].last_sync_attempt = rows[i].created_at
        /\ rows[i].next_retry = rows[i].last_sync_attempt + Backoff(2)

\* C31: no operation deletes a pending event: every step keeps all pending
\* events, and a step that deletes rows deletes the delivered events older
\* than the number of days given to the cleanup command, and nothing else.
C31_PendingNeverDeleted ==
    [][/\ \A i \in DOMAIN rows :
             rows[i].sync_status = "pending" => i \in DOMAIN rows'
       /\ \/ DOMAIN rows \subseteq DOMAIN rows'
          \/ \E d \in CleanupDays :
                DOMAIN rows \ DOMAIN rows' =
                    {i \in DOMAIN rows :
                        /\ rows[i].sync_status = "success"
                        /\ rows[i].created_at < now - d * DayMinutes}]_vars

\* the cleanup has deleted the delivered event 1 and kept the pending event
\* 2, which is as old
C31_Witness ==
    /\ layout = "new"
    /\ DOMAIN rows = {2}
    /\ rows[2].sync_status = "pending"
    /\ rows[2].created_at < now
    /\ rows[2].sync_attempts >= 1

\* the worker records the outcome it holds: the call of update_sync_status
Records == pc = "record" /\ pc' # "record"

\* C32: update_sync_status changes only the row with the given id; every
\* other row is unchanged, and on the success path the row's sync_attempts,
\* next_retry, device_id, card_id, card_value and created_at are unchanged:
\* only sync_status, webhook_response and last_sync_attempt are written.
C32_UpdateFrame ==
    [][Records =>
          LET id == Head(pending_syncs).row_id
          IN  /\ DOMAIN rows' = DOMAIN rows
              /\ \A j \in DOMAIN rows \ {id} : rows'[j] = rows[j]
              /\ outcome.success =>
                    /\ rows'[id].sync_attempts = rows[id].sync_attempts
                    /\ rows'[id].next_retry = rows[id].next_retry
                    /\ rows'[id].device_id = rows[id].device_id
                    /\ rows'[id].card_id = rows[id].card_id
                    /\ rows'[id].card_value = rows[id].card_value
                    /\ rows'[id].created_at = rows[id].created_at
                    /\ rows'[id].timestamp = rows[id].timestamp
                    /\ rows'[id].sync_status = "success"
                    /\ rows'[id].webhook_response = outcome.response
                    /\ rows'[id].last_sync_attempt = now]_vars

\* an event that failed once has been delivered: its attempt count and its
\* next_retry are those of the failure; another event is pending, untouched
C32_Witness ==
    \E i, j \in DOMAIN rows :
        /\ Delivered(i)
        /\ rows[i].sync_attempts = 1
        /\ rows[i].next_retry = rows[i].created_at + tz + Backoff(1)
        /\ rows[j].sync_status = "pending"
        /\ rows[j].sync_attempts = 0
        /\ rows[j].last_sync_attempt = NULL

\* the values the columns of a row can have
RowInvariant(r) ==
    /\ r.sync_status \in {"pending", "success"}
    /\ r.sync_attempts \in Nat
    /\ r.sync_attempts > 0 => r.last_sync_attempt # NULL

\* C33: in every state the capture path, the worker and the operator commands
\* reach, each event's sync_status is 'pending' or 'success' and its
\* sync_attempts a non-negative integer; an event with sync_attempts > 0 has a
\* last_sync_attempt, and an event that was never attempted has none: a row
\* starts without one and gets one only when the worker records an attempt.
C33_RowInvariants ==
    /\ [](\A i \in DOMAIN rows : RowInvariant(rows[i]))
    /\ [][\A i \in DOMAIN rows' :
             /\ i \notin DOMAIN rows => rows'[i].last_sync_attempt = NULL
             /\ (i \in DOMAIN rows /\ rows[i].last_sync_attempt = NULL
                 /\ rows'[i].last_sync_attempt # NULL)
                   => (Records /\ Head(pending_syncs).row_id = i)]_vars

\* an event has failed twice, another was delivered at the first attempt, and
\* the retry command has made the first due again
C33_Witness ==
    \E i, j \in DOMAIN rows :
        /\ rows[i].sync_attempts = 2
        /\ rows[i].sync_status = "pending"
        /\ rows[i].next_retry # rows[i].last_sync_attempt + Backoff(2)
        /\ Delivered(j)
        /\ rows[j].sync_attempts = 0

\* C34: when the store write of update_sync_status fails, the error is
\* swallowed and the row is left as it was: the loop goes on with the next
\* tuple, and an event the endpoint answered 200 for stays pending and, if it
\* was due, due, so that a later drain pass fetches and sends it again.
C34_WriteFailureSwallowed ==
    [][(Records /\ disk = "failing") =>
          LET id == Head(pending_syncs).row_id
          IN  /\ rows' = rows
              /\ pending_syncs' = Tail(pending_syncs)
              /\ pc' = IF Tail(pending_syncs) = <<>> THEN "sleep" ELSE "send"
              /\ running' = running
              /\ (outcome.success /\ IsDue(rows[id], DefaultMaxAgeDays))
                    => \E i \in {id} :
                          /\ rows'[i].sync_status = "pending"
                          /\ IsDue(rows[i], DefaultMaxAgeDays)']_vars

\* the endpoint has answered 200 for the first event of a batch of two (it
\* has not failed yet), the write of the outcome has failed, and the worker
\* is at the second event; the first is as it was inserted
C34_Witness ==
    /\ disk = "failing"
    /\ pc = "send"
    /\ Len(passSent) = 1
    /\ failBudget = 1
    /\ rows[passSent[1]].sync_status = "pending"
    /\ rows[passSent[1]].last_sync_attempt = NULL

\* C35: a drain pass works on the batch fetched at its start: the batch of a
\* running pass never takes up an event, an event inserted while the pass
\* runs is left as inserted by the steps of the pass and is due for the next
\* fetch; and when get_pending_syncs fails with a store error the pass sends
\* nothing and changes no row.
C35_PassWorksOnItsBatch ==
    [][/\ pc \in {"send", "record"} =>
             /\ Ids(pending_syncs') \subseteq Ids(pending_syncs)
             /\ \A i \in DOMAIN rows' \ DOMAIN rows :
                   /\ i \notin Ids(pending_syncs')
                   /\ IsDue(rows[i], DefaultMaxAgeDays)'
             /\ \A i \in DOMAIN rows \ Ids(pending_syncs) :
                   Records => rows'[i] = rows[i]
       /\ (pc \in {"sleep", "sleep60"} /\ disk = "failing" /\ disk' = disk) =>
             /\ pending_syncs' = <<>>
             /\ pc' \in {"sleep", "sleep60"}
             /\ wire' = wire
             /\ \A i \in DOMAIN rows : rows'[i] = rows[i]]_vars

\* a pass is at the last event of its batch while a due event that it has
\* not sent stands in the store: the event was inserted after the fetch
C35_Witness ==
    /\ pc = "send"
    /\ disk = "ok"
    /\ Len(pending_syncs) = 1
    /\ \E i \in DOMAIN rows :
          /\ i \notin Ids(pending_syncs)
          /\ \A k \in 1..Len(passSent) : passSent[k] # i
          /\ IsDue(rows[i], DefaultMaxAgeDays)
          /\ rows[i].last_sync_attempt = NULL

\* C36: a pending event whose next_retry is null, such as a row the migration
\* carried over from a legacy store, is due: every list get_pending_syncs
\* returns holds it as long as it is inside the age window.
C36_NullRetryIsDue ==
    (layout = "new" /\ disk = "ok") =>
        \A i \in DOMAIN rows :
            (/\ rows[i].sync_status = "pending"
             /\ rows[i].next_retry = NULL
             /\ rows[i].created_at >= now - DefaultMaxAgeDays * DayMinutes)
                => \A batch \in GetPendingSyncs(DefaultMaxAgeDays) : i \in Ids(batch)

\* the worker has fetched a migrated legacy row that has no next_retry
C36_Witness ==
    /\ pc = "send"
    /\ LET i == Head(pending_syncs).row_id
       IN  /\ i \in DOMAIN rows
           /\ rows[i].next_retry = NULL
           /\ rows[i].card_id = "ABC123"
           /\ rows[i].sync_status = "pending"

\* C37: the de-duplication state is set when the card is read, before the
\* insert.  A pass whose insert fails leaves the card in last_card_id and adds
\* no row, so the pass that follows a failed insert with the same card is a
\* repeat and adds no row either; a row is added only for a card other than
\* the one read last.  A pass whose sensor read fails changes neither
\* last_card_id nor the store, and a stopped process has no last card.
C37_DedupBeforeInsert ==
    /\ [](pc = "down" => last_card_id = None)
    /\ [][LET Passes(result) == capture' # capture /\ capture'.result = result
              Inserts == DOMAIN rows' # DOMAIN rows
          IN  /\ Passes("failed") => (last_card_id' = capture'.card_id /\ ~Inserts)
              /\ Passes("error") => (last_card_id' = last_card_id /\ ~Inserts)
              /\ Passes("repeat") => (last_card_id' = last_card_id /\ ~Inserts)
              /\ (capture.result = "failed" /\ capture' # capture
                    /\ capture'.card_id = capture.card_id)
                    => (capture'.result = "repeat" /\ ~Inserts)
              /\ Inserts => (/\ capture'.result = "stored"
                             /\ rows'[seq'].card_id = capture'.card_id
                             /\ last_card_id # capture'.card_id)]_vars

\* the store works again, and the last pass was a repeat of the card whose
\* insert had failed: the card has no row
C37_Witness ==
    /\ disk = "ok"
    /\ capture = [card_id |-> "CARD-7", result |-> "repeat"]
    /\ last_card_id = "CARD-7"
    /\ \A i \in DOMAIN rows : rows[i].card_id # "CARD-7"

\* C38: the migration can be retried: a run of migrate_database on a legacy
\* store whose location works raises at no statement, whatever an earlier run
\* that failed partway has left in the store, so that the run goes on to its
\* commit with every legacy row migrated.
C38_MigrationRetried ==
    [][(/\ mig.pc \notin MigEnded
        /\ layout = "old"
        /\ disk = "ok"
        /\ disk' = "ok") => mig'.pc # "raised"]_vars

====
